---- MODULE Spec2Model ----
(***************************************************************************)
(* The lazy writer of the cache manager (lazyrite.c): the scan scheduler   *)
(* (CcScheduleLazyWriteScan, CcScanDpc), the post-tick barrier             *)
(* (CcWaitForCurrentLazyWriterActivity), the scan (CcLazyWriteScan), the   *)
(* work queues (CcPostWorkQueue) and the worker pool (CcWorkerThread).     *)
(*                                                                         *)
(* Granularity.  An action of the scan runs from one acquisition of the    *)
(* master lock to the point where the scan next releases it; while the     *)
(* scan posts its post-tick entries it keeps the lock across actions, so   *)
(* the lock is a variable (MasterLock).  Every critical section of the     *)
(* work-queue lock is one action.  The collaborators (CcWriteBehind,       *)
(* CcPostDeferredWrites, the code that dirties pages) are modelled by what *)
(* the lazy writer's interface says about them.                            *)
(*                                                                         *)
(* The specifications share the actions: Spec (the timer, the scans and    *)
(* the workers), SpecBarrier (with the callers of                          *)
(* CcWaitForCurrentLazyWriterActivity), SpecScheduler (with the callers of *)
(* CcScheduleLazyWriteScan and the code that dirties pages), SpecLocks     *)
(* (CcPostWorkQueue split at the acquisition of the work-queue lock),      *)
(* SpecQueues (the two work queues, with requeued entries and lazy closes) *)
(* and SpecExceptions (the except clauses of the scan and of the worker).  *)
(* SpecSchedule takes CcScheduleLazyWriteScan one write at a time (the     *)
(* call in progress is the field Sched of the caller's locals).  In        *)
(* SpecCourtesy (a dirty list of 20 streams), SpecMoves (3 streams) and    *)
(* SpecSelection (every combination of the fields the selection test       *)
(* reads) an action of the scan is one iteration of its loop.  SpecBudget  *)
(* starts from dirty lists of various sizes and SpecTeardown lets streams  *)
(* start waiting for teardown at any time.  SpecBias is SpecCourtesy with  *)
(* allocation failures, SpecLive is the barrier under weak fairness and    *)
(* SpecOrder is SpecLocks with every acquisition of the work-queue lock a  *)
(* step of its own.                                                        *)
(*                                                                         *)
(* hist records the run, not the program: the scans started (scans), the   *)
(* calls of CcScheduleLazyWriteScan(FALSE) that found ScanActive set since *)
(* the timer last fired (calls) and their number when it fired (fired),    *)
(* what each waiter is owed (owedWB, tickOwed, closeOwed), the events      *)
(* moved to the regular queue (moved), the cursor moves made (moves) and,  *)
(* per worker, the tick its scan is in (tick, tickStart, budget, sum,      *)
(* aborted, closeDue), where the tick moved the cursor (cursorMove),       *)
(* whether the stream it dispatched waited for teardown then (teardown)    *)
(* and what CcWriteBehind returned to it (wrote); inspect holds the        *)
(* operands of the last iteration taken on its own, dirty the pages of     *)
(* each stream that CcTotalDirtyPages counts and, in SpecVisits (SpecMoves *)
(* with the count switched on), visits the inspections a tick has made of  *)
(* each stream.                                                            *)
(***************************************************************************)
EXTENDS Integers, Sequences, FiniteSets, TLC

----------------------------------------------------------------------------
(* Bounds of the model *)

NumWorkers == 2
NumStreams == 2
NumWaiters == 1
\* scans started and page-dirtying events in one behaviour
MaxScans == 3
MaxDirtyEvents == 1
\* calls of CcScheduleLazyWriteScan from outside the scan in one behaviour
MaxCalls == 2
\* the pages one page-dirtying event adds to a stream
DirtyQuantum == 20
\* the streams of the long dirty list and of the short one
LongListStreams == 20
ShortListStreams == 3

Workers == 1..NumWorkers
Streams == 1..NumStreams
Waiters == 1..NumWaiters

----------------------------------------------------------------------------
(* Program constants *)

LAZY_WRITER_MAX_AGE_TARGET == 8
\* 4 * (MAX_WRITE_BEHIND / PAGE_SIZE)
MetadataOversize == 64
PassCountMask == 16
LockCourtesyLoops == 20
RescanThreshold == 20
CcDirtyPageTarget == 40
CC_REQUEUE == 35422

\* the nodes of the dirty list that carry IS_CURSOR, and the null pointer
CcLazyWriterCursor == 0
CcDirtySharedCacheMapList == -1
NULL == -2

Nodes == Streams \cup {CcLazyWriterCursor, CcDirtySharedCacheMapList}

NoEntry == [Function |-> "None", Arg |-> 0]
LazyWriteScanEntry == [Function |-> "LazyWriteScan", Arg |-> 0]
WriteBehindEntry(s) == [Function |-> "WriteBehind", Arg |-> s]
EventSetEntry(u) == [Function |-> "EventSet", Arg |-> u]

----------------------------------------------------------------------------
VARIABLES
    ScanActive,        \* LazyWriter.ScanActive
    OtherWork,         \* LazyWriter.OtherWork
    ScanTimer,         \* "off", or the delay the timer is armed with
    CcTotalDirtyPages,
    CcPagesWrittenLastTime,
    CcDirtyPagesLastScan,
    CcPagesYetToWrite,
    CcDeferredWrites,  \* TRUE: the deferred-write list is not empty
    CcCapturedSystemSize,
    links,             \* [Flink, Blink] of the dirty list's nodes
    scm,               \* the shared cache maps (streams)
    CcPostTickWorkQueue,
    CcExpressWorkQueue,
    CcRegularWorkQueue,
    CcIdleWorkerThreadList,
    CcNumberActiveWorkerThreads,
    CcQueueThrottle,
    MasterLock,        \* 0, or the worker whose scan holds the master lock
    wk,                \* CcWorkerThread's locals, per worker context
    sc,                \* CcLazyWriteScan's locals, per worker running it
    wt,                \* CcWaitForCurrentLazyWriterActivity's callers
    hist               \* history of the run (not program state)

vars == <<ScanActive, OtherWork, ScanTimer, CcTotalDirtyPages,
          CcPagesWrittenLastTime, CcDirtyPagesLastScan, CcPagesYetToWrite,
          CcDeferredWrites, CcCapturedSystemSize, links, scm, CcPostTickWorkQueue,
          CcExpressWorkQueue, CcRegularWorkQueue, CcIdleWorkerThreadList,
          CcNumberActiveWorkerThreads, CcQueueThrottle, MasterLock, wk, sc,
          wt, hist>>

schedVars == <<ScanActive, ScanTimer>>
budgetVars == <<CcPagesWrittenLastTime, CcDirtyPagesLastScan, CcPagesYetToWrite,
                CcCapturedSystemSize>>
SmallSystem == CcCapturedSystemSize = "MmSmallSystem"
queueVars == <<CcExpressWorkQueue, CcRegularWorkQueue, CcIdleWorkerThreadList,
               CcNumberActiveWorkerThreads, CcQueueThrottle>>

\* the work-queue lock: 0, or the worker that is between
\* CcAcquireWorkQueueLock and CcReleaseWorkQueueLock; a critical section of
\* the lock is a single action except where a specification splits it
\* variant in which a worker still holds the lock when it enters
\* CcLazyWriteScan
HoldsWorkQueueLockIntoScan(pc) == pc \in {"ScanPosting", "QueueLocked", "ScanTop"}

\* the positions between CcAcquireWorkQueueLock and CcReleaseWorkQueueLock:
\* in CcPostWorkQueue called by the scan (lines 431-439) and in the worker's
\* loop (lines 473-506, 473-554)
HoldsWorkQueueLockAt(pc) == pc \in {"ScanPosting", "QueueLocked"}

WorkQueueLock ==
    IF \E w \in Workers : HoldsWorkQueueLockAt(wk[w].pc)
    THEN CHOOSE w \in Workers : HoldsWorkQueueLockAt(wk[w].pc)
    ELSE 0

----------------------------------------------------------------------------
(* LIST_ENTRY primitives on the dirty list *)

RemoveEntryList(L, e) ==
    LET f == L.Flink[e]
        b == L.Blink[e]
        F1 == [L.Flink EXCEPT ![b] = f]
        B1 == [L.Blink EXCEPT ![f] = b]
    IN  [Flink |-> F1, Blink |-> B1]

\* InsertTailList(head, e): e becomes the node before head
InsertTailList(L, head, e) ==
    LET b == L.Blink[head]
        F1 == [L.Flink EXCEPT ![e] = head, ![b] = e]
        B1 == [L.Blink EXCEPT ![e] = b, ![head] = e]
    IN  [Flink |-> F1, Blink |-> B1]

\* InsertHeadList(head, e): e becomes the node after head
InsertHeadList(L, head, e) ==
    LET f == L.Flink[head]
        F1 == [L.Flink EXCEPT ![e] = f, ![head] = e]
        B1 == [L.Blink EXCEPT ![e] = head, ![f] = e]
    IN  [Flink |-> F1, Blink |-> B1]

\* a node taken out of the list for good points at itself
Unlink(L, e) ==
    LET R == RemoveEntryList(L, e)
    IN  [Flink |-> [R.Flink EXCEPT ![e] = e], Blink |-> [R.Blink EXCEPT ![e] = e]]

RECURSIVE Walk(_, _, _)
\* the nodes met following Flink from n, n included, in at most k steps,
\* stopping before the list head comes round again
Walk(L, n, k) ==
    IF k = 0 THEN <<>>
    ELSE IF L.Flink[n] = CcDirtySharedCacheMapList THEN <<n>>
    ELSE <<n>> \o Walk(L, L.Flink[n], k - 1)

ListOrder(L) == Walk(L, CcDirtySharedCacheMapList, Cardinality(DOMAIN L.Flink) + 1)
InList(L, n) == \E i \in 1..Len(ListOrder(L)) : ListOrder(L)[i] = n

IsCursorNode(n) == n \in {CcLazyWriterCursor, CcDirtySharedCacheMapList}

----------------------------------------------------------------------------
(* Scan scheduler *)

\* variant that takes the first delay whenever the scan is not a fast one
ScheduleWithFirstDelay(FastScan, active) ==
    IF FastScan THEN <<TRUE, "CcNoDelay">>
    ELSE <<TRUE, "CcFirstDelay">>

\* variant that leaves the flag alone when the scan is not a fast one
ScheduleWithoutSettingActive(FastScan, active) ==
    IF FastScan THEN <<TRUE, "CcNoDelay">>
    ELSE IF active THEN <<active, "CcIdleDelay">>
    ELSE <<active, "CcFirstDelay">>

\* CcScheduleLazyWriteScan(FastScan): the new <<ScanActive, ScanTimer>>
CcScheduleLazyWriteScan(FastScan, active) ==
    IF FastScan THEN <<TRUE, "CcNoDelay">>
    ELSE IF active THEN <<active, "CcIdleDelay">>
    ELSE <<TRUE, "CcFirstDelay">>

\* variant that arms the timer before it sets the flag
ScheduleWritesTimerFirst(FastScan, active) ==
    IF FastScan
    THEN <<[field |-> "ScanTimer", value |-> "CcNoDelay"],
           [field |-> "ScanActive", value |-> TRUE]>>
    ELSE IF active
    THEN <<[field |-> "ScanTimer", value |-> "CcIdleDelay"]>>
    ELSE <<[field |-> "ScanTimer", value |-> "CcFirstDelay"],
           [field |-> "ScanActive", value |-> TRUE]>>

\* CcScheduleLazyWriteScan statement by statement: the writes it makes, in
\* program order, active being the value of ScanActive its tests read
ScheduleWrites(FastScan, active) ==
    IF FastScan
    THEN <<[field |-> "ScanActive", value |-> TRUE],
           [field |-> "ScanTimer", value |-> "CcNoDelay"]>>
    ELSE IF active
    THEN <<[field |-> "ScanTimer", value |-> "CcIdleDelay"]>>
    ELSE <<[field |-> "ScanActive", value |-> TRUE],
           [field |-> "ScanTimer", value |-> "CcFirstDelay"]>>

\* a call of CcScheduleLazyWriteScan in progress: its argument, the ScanActive
\* it read, the writes it has still to make and those it has made
NoCall == [FastScan |-> FALSE, Active |-> FALSE, Writes |-> <<>>, Done |-> <<>>]
ScheduleCall(FastScan, active) ==
    [FastScan |-> FastScan, Active |-> active,
     Writes |-> ScheduleWrites(FastScan, active), Done |-> <<>>]

\* the next write of the call c is made
ScheduleWriteMade(c) ==
    LET wr == Head(c.Writes)
    IN  /\ ScanActive' = IF wr.field = "ScanActive" THEN wr.value ELSE ScanActive
        /\ ScanTimer' = IF wr.field = "ScanTimer" THEN wr.value ELSE ScanTimer

\* CcPostWorkQueue: the new <<queue, idle list, active count>> after the entry
\* is queued and, when not throttled, one idle worker is activated
CcPostWorkQueue(queue, entry, idle, active, throttle) ==
    IF ~throttle /\ idle # <<>>
    THEN <<Append(queue, entry), Tail(idle), active + 1>>
    ELSE <<Append(queue, entry), idle, active>>

\* variant of CcScanDpc that leaves ScanActive alone when it gets no work entry
CcScanDpcStaysActive(allocOk) ==
    /\ ScanTimer # "off"
    /\ allocOk => WorkQueueLock = 0
    /\ ScanTimer' = "off"
    /\ IF allocOk
       THEN LET r == CcPostWorkQueue(CcRegularWorkQueue, LazyWriteScanEntry,
                                     CcIdleWorkerThreadList,
                                     CcNumberActiveWorkerThreads, CcQueueThrottle)
            IN  /\ CcRegularWorkQueue' = r[1]
                /\ CcIdleWorkerThreadList' = r[2]
                /\ CcNumberActiveWorkerThreads' = r[3]
       ELSE UNCHANGED <<CcRegularWorkQueue, CcIdleWorkerThreadList,
                        CcNumberActiveWorkerThreads>>
    /\ hist' = [hist EXCEPT !.calls = 0, !.fired = hist.calls]
    /\ UNCHANGED <<ScanActive, OtherWork, CcTotalDirtyPages, budgetVars,
                   CcDeferredWrites, links, scm, CcPostTickWorkQueue,
                   CcExpressWorkQueue, CcQueueThrottle, MasterLock, wk, sc, wt>>

\* CcScanDpc: the timer goes off; allocOk is CcAllocateWorkQueueEntry's outcome
CcScanDpc(allocOk) ==
    /\ ScanTimer # "off"
    /\ allocOk => WorkQueueLock = 0
    /\ ScanTimer' = "off"
    /\ IF allocOk
       THEN LET r == CcPostWorkQueue(CcRegularWorkQueue, LazyWriteScanEntry,
                                     CcIdleWorkerThreadList,
                                     CcNumberActiveWorkerThreads, CcQueueThrottle)
            IN  /\ CcRegularWorkQueue' = r[1]
                /\ CcIdleWorkerThreadList' = r[2]
                /\ CcNumberActiveWorkerThreads' = r[3]
                /\ ScanActive' = ScanActive
       ELSE /\ ScanActive' = FALSE
            /\ UNCHANGED <<CcRegularWorkQueue, CcIdleWorkerThreadList,
                           CcNumberActiveWorkerThreads>>
    /\ hist' = [hist EXCEPT !.calls = 0, !.fired = hist.calls]
    /\ UNCHANGED <<OtherWork, CcTotalDirtyPages, budgetVars, CcDeferredWrites,
                   links, scm, CcPostTickWorkQueue, CcExpressWorkQueue,
                   CcQueueThrottle, MasterLock, wk, sc, wt>>

\* a caller outside the scan calls CcScheduleLazyWriteScan, holding the master
\* lock as the routine asks
ScheduleLazyWriteScanCalled(FastScan) ==
    /\ MasterLock = 0
    /\ hist.external < MaxCalls
    /\ LET r == CcScheduleLazyWriteScan(FastScan, ScanActive)
       IN  /\ ScanActive' = r[1]
           /\ ScanTimer' = r[2]
    /\ hist' = [hist EXCEPT !.external = @ + 1,
                            !.calls = IF ~FastScan /\ ScanActive THEN @ + 1 ELSE 0]
    /\ UNCHANGED <<OtherWork, CcTotalDirtyPages, budgetVars, CcDeferredWrites,
                   links, scm, CcPostTickWorkQueue, queueVars, MasterLock, wk, sc,
                   wt>>

----------------------------------------------------------------------------
(* Post-tick barrier *)

QueuedWriteBehinds ==
    {s \in DOMAIN scm :
        \/ \E i \in 1..Len(CcExpressWorkQueue) : CcExpressWorkQueue[i] = WriteBehindEntry(s)
        \/ \E i \in 1..Len(CcRegularWorkQueue) : CcRegularWorkQueue[i] = WriteBehindEntry(s)
        \/ \E w \in Workers : wk[w].Entry = WriteBehindEntry(s)}

LazyCloseAvailable ==
    {s \in DOMAIN scm : /\ InList(links, s)
                     /\ scm[s].OpenCount = 0
                     /\ scm[s].DirtyPages = 0
                     /\ ~scm[s].WriteQueued}

\* variant that queues the entry without setting OtherWork
WaitForCurrentActivityUnflagged(u) ==
    /\ wt[u].pc = "idle"
    /\ MasterLock = 0
    /\ CcPostTickWorkQueue' = Append(CcPostTickWorkQueue, EventSetEntry(u))
    /\ LET r == IF ~ScanActive THEN CcScheduleLazyWriteScan(TRUE, ScanActive)
                ELSE <<ScanActive, ScanTimer>>
       IN  /\ ScanActive' = r[1]
           /\ ScanTimer' = r[2]
    /\ wt' = [wt EXCEPT ![u] = [pc |-> "waiting", Event |-> FALSE, Sched |-> NoCall]]
    /\ hist' = [hist EXCEPT !.owedWB[u] = QueuedWriteBehinds,
                            !.tickOwed[u] = {},
                            !.closeOwed[u] = LazyCloseAvailable]
    /\ UNCHANGED <<OtherWork, CcTotalDirtyPages, budgetVars, CcDeferredWrites, links,
                   scm, queueVars, MasterLock, wk, sc>>

\* CcWaitForCurrentLazyWriterActivity up to the wait, the allocation succeeding
WaitForCurrentActivity(u) ==
    /\ wt[u].pc = "idle"
    /\ MasterLock = 0
    /\ CcPostTickWorkQueue' = Append(CcPostTickWorkQueue, EventSetEntry(u))
    /\ OtherWork' = TRUE
    /\ LET r == IF ~ScanActive THEN CcScheduleLazyWriteScan(TRUE, ScanActive)
                ELSE <<ScanActive, ScanTimer>>
       IN  /\ ScanActive' = r[1]
           /\ ScanTimer' = r[2]
    /\ wt' = [wt EXCEPT ![u] = [pc |-> "waiting", Event |-> FALSE, Sched |-> NoCall]]
    /\ hist' = [hist EXCEPT !.owedWB[u] = QueuedWriteBehinds,
                            !.tickOwed[u] = {},
                            !.closeOwed[u] = LazyCloseAvailable]
    /\ UNCHANGED <<CcTotalDirtyPages, budgetVars, CcDeferredWrites, links, scm,
                   queueVars, MasterLock, wk, sc>>

\* the same statement by statement when the lazy writer is not active: the
\* caller, holding the master lock (its holder is written -u), enters
\* CcScheduleLazyWriteScan(TRUE) ...
WaitCallsSchedule(u) ==
    /\ wt[u].pc = "idle"
    /\ MasterLock = 0
    /\ ~ScanActive
    /\ CcPostTickWorkQueue' = Append(CcPostTickWorkQueue, EventSetEntry(u))
    /\ OtherWork' = TRUE
    /\ MasterLock' = -u
    /\ wt' = [wt EXCEPT ![u] = [pc |-> "scheduling", Event |-> FALSE,
                                Sched |-> ScheduleCall(TRUE, ScanActive)]]
    /\ hist' = [hist EXCEPT !.owedWB[u] = QueuedWriteBehinds,
                            !.tickOwed[u] = {},
                            !.closeOwed[u] = LazyCloseAvailable]
    /\ UNCHANGED <<ScanActive, ScanTimer, CcTotalDirtyPages, budgetVars,
                   CcDeferredWrites, links, scm, queueVars, wk, sc>>

\* ... which makes its next write; after the last one the caller releases the
\* master lock and waits
WaitScheduleWrites(u) ==
    /\ wt[u].pc = "scheduling"
    /\ MasterLock = -u
    /\ ScheduleWriteMade(wt[u].Sched)
    /\ LET rest == Tail(wt[u].Sched.Writes)
       IN  IF rest = <<>>
           THEN /\ MasterLock' = 0
                /\ wt' = [wt EXCEPT ![u] = [pc |-> "waiting", Event |-> FALSE,
                                            Sched |-> NoCall]]
           ELSE /\ MasterLock' = MasterLock
                /\ wt' = [wt EXCEPT ![u].Sched.Writes = rest,
                                    ![u].Sched.Done =
                                        Append(@, Head(wt[u].Sched.Writes))]
    /\ UNCHANGED <<OtherWork, CcTotalDirtyPages, budgetVars, CcDeferredWrites,
                   links, scm, CcPostTickWorkQueue, queueVars, wk, sc, hist>>

\* variant in which the failure is noticed after OtherWork has been set
WaitFailsAfterOtherWork(u) ==
    /\ wt[u].pc = "idle"
    /\ wt' = [wt EXCEPT ![u].pc = "failed"]
    /\ OtherWork' = TRUE
    /\ UNCHANGED <<ScanActive, ScanTimer, CcTotalDirtyPages, budgetVars,
                   CcDeferredWrites, links, scm, CcPostTickWorkQueue, queueVars,
                   MasterLock, wk, sc, hist>>

\* the allocation of the EventSet entry fails: STATUS_INSUFFICIENT_RESOURCES
WaitAllocationFails(u) ==
    /\ wt[u].pc = "idle"
    /\ wt' = [wt EXCEPT ![u].pc = "failed"]
    /\ UNCHANGED <<ScanActive, OtherWork, ScanTimer, CcTotalDirtyPages, budgetVars,
                   CcDeferredWrites, links, scm, CcPostTickWorkQueue, queueVars,
                   MasterLock, wk, sc, hist>>

\* KeWaitForSingleObject returns: the event is signalled
WaitReturns(u) ==
    /\ wt[u].pc = "waiting"
    /\ wt[u].Event
    /\ wt' = [wt EXCEPT ![u].pc = "returned"]
    /\ UNCHANGED <<ScanActive, OtherWork, ScanTimer, CcTotalDirtyPages, budgetVars,
                   CcDeferredWrites, links, scm, CcPostTickWorkQueue, queueVars,
                   MasterLock, wk, sc, hist>>

----------------------------------------------------------------------------
(* Lazy-writer scan *)

WorkerLocals == [pc |-> "stopped", Entry |-> NoEntry, WorkQueue |-> "none",
                 RescanOk |-> FALSE, DropThrottle |-> FALSE, Information |-> 0,
                 MemoryMaker |-> FALSE, ExceptionCode |-> "none"]

ScanLocals == [PagesToWrite |-> 0, FirstVisited |-> NULL, SharedCacheMap |-> NULL,
               LoopsWithLockHeld |-> 0, AlreadyMoved |-> FALSE,
               MoveBehindCursor |-> FALSE, PostTickWorkQueue |-> <<>>,
               Sched |-> NoCall]

\* ULONG arithmetic.  The page counts of the model stay far below 2^31, so a
\* ULONG sum is the integer sum; a ULONG difference that wraps is kept as the
\* negative integer it is congruent to modulo 2^32, and the unsigned order puts
\* such a value above every value that did not wrap.
UGreater(a, b) ==
    IF (a >= 0) = (b >= 0) THEN a > b ELSE a < 0

ForegroundRate(total, writtenLast, dirtyLast) ==
    IF UGreater(total + writtenLast, dirtyLast)
    THEN (total + writtenLast) - dirtyLast
    ELSE 0

\* variant that divides from the age target on
UsualFractionFromTarget(total) ==
    IF total >= LAZY_WRITER_MAX_AGE_TARGET
    THEN total \div LAZY_WRITER_MAX_AGE_TARGET
    ELSE total

\* variant that always divides
UsualFractionAlwaysDivided(total) ==
    total \div LAZY_WRITER_MAX_AGE_TARGET

UsualFraction(total) ==
    IF UGreater(total, LAZY_WRITER_MAX_AGE_TARGET)
    THEN total \div LAZY_WRITER_MAX_AGE_TARGET
    ELSE total

\* the page budget of a tick with the dirty page target given
TickBudgetFor(total, writtenLast, dirtyLast, target) ==
    LET p == UsualFraction(total)
        est == total - p + ForegroundRate(total, writtenLast, dirtyLast)
    IN  IF UGreater(est, target) THEN p + est - target
        ELSE p

\* the page budget of a tick
TickBudget(total, writtenLast, dirtyLast) ==
    TickBudgetFor(total, writtenLast, dirtyLast, CcDirtyPageTarget)

\* the worker leaves CcLazyWriteScan: back in CcWorkerThread's loop when the scan
\* ran for a LazyWriteScan entry (which is freed), done when it was the last
\* action of a worker gone idle
ScanReturn(w) ==
    IF wk[w].Entry = LazyWriteScanEntry
    THEN [wk[w] EXCEPT !.pc = "top", !.Entry = NoEntry]
    ELSE WorkerLocals

\* the test of line 245: is the shared cache map S flushed in this tick.  The
\* pass count is incremented when the test gets as far as reading it.
PassCountIncrements(S, PagesToWrite) ==
    /\ ~S.WriteQueued
    /\ S.DirtyPages # 0
    /\ ~S.Teardown
    /\ PagesToWrite # 0

PassCountAfter(S, PagesToWrite) ==
    IF PassCountIncrements(S, PagesToWrite) THEN (S.PassCount + 1) % PassCountMask
    ELSE S.PassCount

\* variant of the test that does not look at WRITE_QUEUED
FlushableIgnoringWriteQueued(S, PagesToWrite, small, canWrite) ==
    \/ /\ S.DirtyPages # 0
       /\ \/ S.Teardown
          \/ /\ PagesToWrite # 0
             /\ \/ PassCountAfter(S, PagesToWrite) = 0
                \/ ~S.Mwd
                \/ small
                \/ S.DirtyPages >= MetadataOversize
             /\ \/ ~S.Temp
                \/ S.OpenCount = 0
                \/ ~canWrite
    \/ (S.OpenCount = 0 /\ S.DirtyPages = 0) \/ S.FileSize = 0

\* variant of the test without its lazy-close clause
FlushableWithoutLazyClose(S, PagesToWrite, small, canWrite) ==
    /\ ~S.WriteQueued
    /\ \/ /\ S.DirtyPages # 0
          /\ \/ S.Teardown
             \/ /\ PagesToWrite # 0
                /\ \/ PassCountAfter(S, PagesToWrite) = 0
                   \/ ~S.Mwd
                   \/ small
                   \/ S.DirtyPages >= MetadataOversize
                /\ \/ ~S.Temp
                   \/ S.OpenCount = 0
                   \/ ~canWrite
       \/ S.FileSize = 0

\* variant of the test that flushes a temporary file when it can be written
FlushableWhenCanWrite(S, PagesToWrite, small, canWrite) ==
    /\ ~S.WriteQueued
    /\ \/ /\ S.DirtyPages # 0
          /\ \/ S.Teardown
             \/ /\ PagesToWrite # 0
                /\ \/ PassCountAfter(S, PagesToWrite) = 0
                   \/ ~S.Mwd
                   \/ small
                   \/ S.DirtyPages >= MetadataOversize
                /\ \/ ~S.Temp
                   \/ S.OpenCount = 0
                   \/ canWrite
       \/ (S.OpenCount = 0 /\ S.DirtyPages = 0) \/ S.FileSize = 0

Flushable(S, PagesToWrite, small, canWrite) ==
    /\ ~S.WriteQueued
    /\ \/ /\ S.DirtyPages # 0
          /\ \/ S.Teardown
             \/ /\ PagesToWrite # 0
                /\ \/ PassCountAfter(S, PagesToWrite) = 0
                   \/ ~S.Mwd
                   \/ small
                   \/ S.DirtyPages >= MetadataOversize
                /\ \/ ~S.Temp
                   \/ S.OpenCount = 0
                   \/ ~canWrite
       \/ (S.OpenCount = 0 /\ S.DirtyPages = 0) \/ S.FileSize = 0

\* the pages a flushed map is told to write
StreamPagesToWrite(S, small) ==
    IF S.Mwd /\ S.DirtyPages >= MetadataOversize /\ ~small
    THEN S.DirtyPages \div 8
    ELSE S.DirtyPages

\* variant of the move that inserts the cursor without removing it first
InsertCursorBehind(L, cur) ==
    InsertHeadList(L, cur, CcLazyWriterCursor)

\* the two moves of the cursor
MoveCursorBehind(L, cur) ==
    InsertHeadList(RemoveEntryList(L, CcLazyWriterCursor), cur, CcLazyWriterCursor)

\* variant of the splice that puts the cursor after the map
SpliceCursorAfter(L, cur) ==
    InsertHeadList(RemoveEntryList(L, CcLazyWriterCursor), cur, CcLazyWriterCursor)

MoveCursorBefore(L, cur) ==
    InsertTailList(RemoveEntryList(L, CcLazyWriterCursor), cur, CcLazyWriterCursor)

\* the end of a loop iteration: the next map is read, then the cursor is moved
\* behind the current one when that was asked for
LoopBackLinks(L, l) ==
    IF l.MoveBehindCursor THEN MoveCursorBehind(L, l.SharedCacheMap) ELSE L

\* variant of the loop back that moves the cursor before it reads the next map
LoopBackLocalsAfterMove(L, l) ==
    [l EXCEPT !.SharedCacheMap = LoopBackLinks(L, l).Flink[l.SharedCacheMap],
              !.MoveBehindCursor = FALSE]

LoopBackLocals(L, l) ==
    [l EXCEPT !.SharedCacheMap = L.Flink[l.SharedCacheMap],
              !.MoveBehindCursor = FALSE]

\* variant of the decision with the comparison of line 273 turned round
AdjustTargetsReversed(l, S, cur, spw) ==
    IF l.AlreadyMoved THEN l
    ELSE IF spw <= l.PagesToWrite
    THEN [l EXCEPT !.PagesToWrite = 0, !.AlreadyMoved = TRUE,
                   !.MoveBehindCursor =
                       IF S.Mwd \/ (l.FirstVisited = cur /\ S.PassCount = 0)
                       THEN TRUE ELSE @]
    ELSE [l EXCEPT !.PagesToWrite = @ - spw]

\* the cursor decision for a flushed map with spw pages to write (lines 271-299)
AdjustTargets(l, S, cur, spw) ==
    IF l.AlreadyMoved THEN l
    ELSE IF spw >= l.PagesToWrite
    THEN [l EXCEPT !.PagesToWrite = 0, !.AlreadyMoved = TRUE,
                   !.MoveBehindCursor =
                       IF S.Mwd \/ (l.FirstVisited = cur /\ S.PassCount = 0)
                       THEN TRUE ELSE @]
    ELSE [l EXCEPT !.PagesToWrite = @ - spw]

SplicesCursor(l, S, cur, spw) ==
    /\ ~l.AlreadyMoved
    /\ spw >= l.PagesToWrite
    /\ ~(S.Mwd \/ (l.FirstVisited = cur /\ S.PassCount = 0))

\* variant of the courtesy that waits for one more inspection
LockCourtesyDueLate(n, S) == n > LockCourtesyLoops /\ ~S.WriteQueued

\* the test of line 338 for a shared cache map S (IS_CURSOR is clear), n being
\* the incremented LoopsWithLockHeld
LockCourtesyDue(n, S) == n >= LockCourtesyLoops /\ ~S.WriteQueued

\* the loop test of line 228: the scan is back at the first map it visited, or
\* at the cursor
LoopOver(l) ==
    l.SharedCacheMap = l.FirstVisited \/ l.SharedCacheMap = CcLazyWriterCursor

\* one iteration of the while loop under the master lock, from the loop test to
\* the point "at" where it ends the loop ("end"), drops the lock to allocate a
\* work entry ("alloc") or out of courtesy ("courtesy"), or loops back ("loop").
\* canWrite is the set of streams CcCanIWrite answers TRUE for.
Iteration(L, M, l, small, canWrite) ==
    LET cur == l.SharedCacheMap
    IN  IF LoopOver(l)
        THEN [links |-> L, scm |-> M, l |-> l, at |-> "end", spliced |-> FALSE]
        ELSE
        LET l1 == [l EXCEPT !.FirstVisited = IF @ = NULL THEN cur ELSE @]
            n == l.LoopsWithLockHeld + 1
        IN  IF IsCursorNode(cur)
            THEN \* the list head: IS_CURSOR is set and nothing else is read
                 LET l2 == [l1 EXCEPT !.LoopsWithLockHeld = n]
                 IN  [links |-> LoopBackLinks(L, l2), scm |-> M,
                      l |-> LoopBackLocals(L, l2), at |-> "loop", spliced |-> FALSE]
            ELSE
            LET S == [M[cur] EXCEPT !.PassCount = PassCountAfter(M[cur], l.PagesToWrite)]
            IN  IF Flushable(M[cur], l.PagesToWrite, small, cur \in canWrite)
                THEN LET spw == StreamPagesToWrite(S, small)
                     IN  [links |-> IF SplicesCursor(l1, S, cur, spw)
                                    THEN MoveCursorBefore(L, cur) ELSE L,
                          scm |-> [M EXCEPT ![cur] =
                                     [S EXCEPT !.PagesToWrite = spw,
                                               !.WriteQueued = TRUE,
                                               !.DirtyPages = @ + 1]],
                          l |-> AdjustTargets(l1, S, cur, spw),
                          at |-> "alloc", spliced |-> SplicesCursor(l1, S, cur, spw)]
                ELSE IF LockCourtesyDue(n, S)
                THEN [links |-> L,
                      scm |-> [M EXCEPT ![cur] = [S EXCEPT !.WriteQueued = TRUE,
                                                           !.DirtyPages = @ + 1]],
                      l |-> [l1 EXCEPT !.LoopsWithLockHeld = 0],
                      at |-> "courtesy", spliced |-> FALSE]
                ELSE LET l2 == [l1 EXCEPT !.LoopsWithLockHeld = n]
                     IN  [links |-> LoopBackLinks(L, l2),
                          scm |-> [M EXCEPT ![cur] = S],
                          l |-> LoopBackLocals(L, l2), at |-> "loop",
                          spliced |-> FALSE]

RECURSIVE Iterate(_, _, _, _, _, _)
\* the iterations the scan makes without dropping the master lock
Iterate(L, M, l, small, canWrite, fuel) ==
    LET r == Iteration(L, M, l, small, canWrite)
    IN  IF r.at = "loop" /\ fuel > 0
        THEN Iterate(r.links, r.scm, r.l, small, canWrite, fuel - 1)
        ELSE r

\* more iterations than a scan of the list L can make
LoopFuel(L) == 2 * Cardinality(DOMAIN L.Flink) + 2

\* variant that goes to the end of the scan past the post-tick entries
ScanPcAtPastPostTick(at, P) ==
    IF at = "alloc" THEN "ScanAlloc"
    ELSE IF at = "courtesy" THEN "ScanCourtesy"
    ELSE IF at = "loop" THEN "ScanLoop"
    ELSE "ScanResched"

\* where the scan is, and whether it holds the master lock, after the loop
\* stopped at "at" with the post-tick entries P pulled at the top
ScanPcAt(at, P) ==
    IF at = "alloc" THEN "ScanAlloc"
    ELSE IF at = "courtesy" THEN "ScanCourtesy"
    ELSE IF at = "loop" THEN "ScanLoop"
    ELSE IF P # <<>> THEN "ScanEnd" ELSE "ScanResched"

HoldsMasterLockAt(pc) == pc \in {"ScanEnd", "ScanLoop"}

\* no inspection recorded
NoMap ==
    [DirtyPages |-> 0, PagesToWrite |-> 0, WriteQueued |-> FALSE, Mwd |-> FALSE,
     Teardown |-> FALSE, Temp |-> FALSE, OpenCount |-> 0, FileSize |-> 0,
     PassCount |-> 0]

NoInspection ==
    [w |-> 0, S |-> NULL, was |-> NoMap, PagesToWrite |-> 0, canWrite |-> FALSE,
     turn |-> FALSE]

\* the record of an inspection taken on its own: the entry inspected, the map as
\* it was, the pages left to write and CcCanIWrite's answer for it; turn tells
\* two inspections in a row apart
Inspection(w, M, l, canWrite, last) ==
    [w |-> w, S |-> l.SharedCacheMap,
     was |-> IF l.SharedCacheMap \in DOMAIN M THEN M[l.SharedCacheMap] ELSE NoMap,
     PagesToWrite |-> l.PagesToWrite,
     canWrite |-> l.SharedCacheMap \in canWrite,
     turn |-> ~last.turn]

\* the scan of worker w goes on iterating from the list L, the maps M and the
\* locals l, until it drops the master lock or has post-tick entries to post,
\* or for one iteration and fuel more when these do not end the loop (the
\* master lock stays held); h is the history so far
ScanLoop(w, L, M, l, canWrite, h, fuel) ==
    LET r == Iterate(L, M, l, SmallSystem, canWrite, fuel)
        pc == ScanPcAt(r.at, r.l.PostTickWorkQueue)
    IN  /\ links' = r.links
        /\ scm' = r.scm
        /\ sc' = [sc EXCEPT ![w] = r.l]
        /\ MasterLock' = IF HoldsMasterLockAt(pc) THEN w ELSE 0
        /\ wk' = [wk EXCEPT ![w].pc = pc]
        /\ hist' = [IF r.spliced
                    THEN [h EXCEPT !.moves = @ \cup {"before"},
                                   !.cursorMove[w] = [how |-> "before",
                                                      S |-> r.l.SharedCacheMap,
                                                      next |-> r.l.SharedCacheMap]]
                    ELSE h
                      EXCEPT !.inspect = IF fuel = 0 /\ ~LoopOver(l)
                                         THEN Inspection(w, M, l, canWrite, @)
                                         ELSE @,
                             !.visits[w] =
                                 IF fuel = 0 /\ ~LoopOver(l)
                                    /\ l.SharedCacheMap \in DOMAIN @
                                 THEN [@ EXCEPT ![l.SharedCacheMap] = @ + 1]
                                 ELSE @,
                             !.teardown[w].seen =
                                 r.at = "alloc" /\ M[r.l.SharedCacheMap].Teardown]

\* no move of the cursor made (or asked for) in the tick so far
NoCursorMove == [how |-> "none", S |-> NULL, next |-> NULL]

TickHistory(h, w, kind, P, budget) ==
    [h EXCEPT !.scans = @ + 1, !.tick[w] = kind, !.tickStart[w] = P,
              !.budget[w] = budget, !.sum[w] = 0, !.aborted[w] = FALSE,
              !.visits[w] = [s \in DOMAIN @ |-> 0],
              !.cursorMove[w] = NoCursorMove,
              !.teardown[w] = [seen |-> FALSE, late |-> FALSE]]

NoTickHistory(h, w) ==
    [h EXCEPT !.tick[w] = "none", !.tickStart[w] = <<>>,
              !.budget[w] = 0, !.sum[w] = 0, !.aborted[w] = FALSE,
              !.visits[w] = [s \in DOMAIN @ |-> 0],
              !.closeDue[w] = {}, !.cursorMove[w] = NoCursorMove,
              !.teardown[w] = [seen |-> FALSE, late |-> FALSE]]

\* one more call of CcScheduleLazyWriteScan(FALSE) found ScanActive set
IdleCallHistory(h, active) ==
    [h EXCEPT !.calls = IF active THEN @ + 1 ELSE 0]

\* variant of the test of line 169
DeferredWritesNeverEmpty(deferred) == FALSE

\* IsListEmpty(&CcDeferredWrites), for the flag that says the list is not empty
DeferredWritesEmpty(deferred) == ~deferred

\* top of the scan: the quiescence test, the barrier drain, the budget, and the
\* loop up to the first point where the master lock is dropped (or for
\* fuel + 1 iterations)
ScanTopUpTo(w, canWrite, fuel) ==
    /\ wk[w].pc = "ScanTop"
    /\ MasterLock = 0
    /\ hist.scans < MaxScans
    /\ IF CcTotalDirtyPages = 0 /\ ~OtherWork
       THEN /\ IF DeferredWritesEmpty(CcDeferredWrites)
               THEN /\ ScanActive' = FALSE
                    /\ wk' = [wk EXCEPT ![w] = ScanReturn(w)]
                    /\ hist' = [hist EXCEPT !.scans = @ + 1, !.calls = 0]
               ELSE /\ ScanActive' = ScanActive
                    /\ wk' = [wk EXCEPT ![w].pc = "ScanResched"]
                    /\ hist' = TickHistory(hist, w, "quiescent", CcPostTickWorkQueue, 0)
            /\ UNCHANGED <<OtherWork, budgetVars, CcPostTickWorkQueue, MasterLock, sc,
                           links, scm>>
       ELSE LET p == TickBudget(CcTotalDirtyPages, CcPagesWrittenLastTime,
                                CcDirtyPagesLastScan)
                l == [ScanLocals EXCEPT
                        !.PagesToWrite = p,
                        !.PostTickWorkQueue = CcPostTickWorkQueue,
                        !.SharedCacheMap = links.Flink[CcLazyWriterCursor]]
            IN  /\ CcPostTickWorkQueue' = <<>>
                /\ OtherWork' = FALSE
                /\ CcDirtyPagesLastScan' = CcTotalDirtyPages
                /\ CcPagesYetToWrite' = p
                /\ CcPagesWrittenLastTime' = p
                /\ UNCHANGED CcCapturedSystemSize
                /\ ScanLoop(w, links, scm, l, canWrite,
                            [TickHistory(hist, w, "full", CcPostTickWorkQueue, p)
                                EXCEPT !.closeDue[w] = LazyCloseAvailable],
                            fuel)
                /\ ScanActive' = ScanActive
    /\ UNCHANGED <<ScanTimer, CcTotalDirtyPages, CcDeferredWrites, queueVars, wt>>

ScanTop(w, canWrite) == ScanTopUpTo(w, canWrite, LoopFuel(links))

\* variant that posts every entry to the regular queue
QueueForRegular(S) == "regular"

\* the queue of a WriteBehind entry, by the map's flags when it is posted
QueueFor(S) ==
    IF S.Teardown THEN "express" ELSE "regular"

\* CcAllocateWorkQueueEntry succeeded: the master lock is taken again, the
\* WriteBehind entry is posted under it and the loop goes on
PostWriteBehindUpTo(w, canWrite, fuel) ==
    /\ LET l == [sc[w] EXCEPT !.LoopsWithLockHeld = 0]
           cur == l.SharedCacheMap
           express == QueueFor(scm[cur]) = "express"
           r == CcPostWorkQueue(IF express THEN CcExpressWorkQueue
                                ELSE CcRegularWorkQueue,
                                WriteBehindEntry(cur), CcIdleWorkerThreadList,
                                CcNumberActiveWorkerThreads, CcQueueThrottle)
       IN  /\ CcExpressWorkQueue' = IF express THEN r[1] ELSE CcExpressWorkQueue
           /\ CcRegularWorkQueue' = IF express THEN CcRegularWorkQueue ELSE r[1]
           /\ CcIdleWorkerThreadList' = r[2]
           /\ CcNumberActiveWorkerThreads' = r[3]
           /\ ScanLoop(w, LoopBackLinks(links, l),
                       [scm EXCEPT ![cur].DirtyPages = @ - 1],
                       LoopBackLocals(links, l), canWrite,
                       [hist EXCEPT
                          !.sum[w] = @ + scm[cur].PagesToWrite,
                          !.closeDue[w] = @ \ {cur},
                          !.teardown[w].late =
                              @ \/ (scm[cur].Teardown /\ ~hist.teardown[w].seen),
                          !.moves = IF l.MoveBehindCursor THEN @ \cup {"behind"} ELSE @,
                          !.cursorMove[w] = IF l.MoveBehindCursor
                                            THEN [how |-> "behind", S |-> cur,
                                                  next |-> links.Flink[cur]]
                                            ELSE @,
                          !.tickOwed = [u \in Waiters |->
                              IF \E i \in 1..Len(l.PostTickWorkQueue) :
                                     l.PostTickWorkQueue[i] = EventSetEntry(u)
                              THEN @[u] \cup {cur} ELSE @[u]]],
                       fuel)
    /\ UNCHANGED <<ScanActive, OtherWork, ScanTimer, CcTotalDirtyPages, budgetVars,
                   CcDeferredWrites, CcPostTickWorkQueue, CcQueueThrottle, wt>>

PostWriteBehind(w, canWrite) == PostWriteBehindUpTo(w, canWrite, LoopFuel(links))

ScanPostWriteBehind(w, canWrite) ==
    /\ wk[w].pc = "ScanAlloc"
    /\ MasterLock = 0
    /\ PostWriteBehind(w, canWrite)

\* the same in two steps.  First the scan takes the master lock (line 324) and,
\* in CcPostWorkQueue, the work-queue lock (line 431) ...
ScanEntersPostWorkQueue(w) ==
    /\ wk[w].pc = "ScanAlloc"
    /\ MasterLock = 0
    /\ WorkQueueLock = 0
    /\ MasterLock' = w
    /\ wk' = [wk EXCEPT ![w].pc = "ScanPosting"]
    /\ UNCHANGED <<ScanActive, OtherWork, ScanTimer, CcTotalDirtyPages, budgetVars,
                   CcDeferredWrites, links, scm, CcPostTickWorkQueue, queueVars,
                   sc, wt, hist>>

\* ... then it queues the entry, releases the work-queue lock (line 439) and
\* goes on with the loop
ScanLeavesPostWorkQueue(w, canWrite) ==
    /\ wk[w].pc = "ScanPosting"
    /\ MasterLock = w
    /\ PostWriteBehind(w, canWrite)

\* the entry into CcPostWorkQueue in two steps: the scan takes the master lock
\* (line 324) ...
ScanTakesMasterLock(w) ==
    /\ wk[w].pc = "ScanAlloc"
    /\ MasterLock = 0
    /\ MasterLock' = w
    /\ wk' = [wk EXCEPT ![w].pc = "ScanLocked"]
    /\ UNCHANGED <<ScanActive, OtherWork, ScanTimer, CcTotalDirtyPages, budgetVars,
                   CcDeferredWrites, links, scm, CcPostTickWorkQueue, queueVars,
                   sc, wt, hist>>

\* ... and, in CcPostWorkQueue, the work-queue lock (line 431)
ScanTakesWorkQueueLock(w) ==
    /\ wk[w].pc = "ScanLocked"
    /\ MasterLock = w
    /\ WorkQueueLock = 0
    /\ wk' = [wk EXCEPT ![w].pc = "ScanPosting"]
    /\ UNCHANGED <<ScanActive, OtherWork, ScanTimer, CcTotalDirtyPages, budgetVars,
                   CcDeferredWrites, links, scm, CcPostTickWorkQueue, queueVars,
                   MasterLock, sc, wt, hist>>

\* variant that leaves the extra page counted
RestoredStillCounted(S) ==
    [S EXCEPT !.WriteQueued = FALSE]

\* variant that leaves the map marked
RestoredStillQueued(S) ==
    [S EXCEPT !.DirtyPages = @ - 1]

\* a map the scan had marked for a write is put back (lines 314-316)
Restored(S) ==
    [S EXCEPT !.WriteQueued = FALSE, !.DirtyPages = @ - 1]

\* CcAllocateWorkQueueEntry failed: the map is put back and the loop is left
ScanAllocationFails(w) ==
    /\ wk[w].pc = "ScanAlloc"
    /\ MasterLock = 0
    /\ LET cur == sc[w].SharedCacheMap
           pc == ScanPcAt("end", sc[w].PostTickWorkQueue)
       IN  /\ scm' = [scm EXCEPT ![cur] = Restored(@)]
           /\ MasterLock' = IF HoldsMasterLockAt(pc) THEN w ELSE 0
           /\ wk' = [wk EXCEPT ![w].pc = pc]
    /\ hist' = [hist EXCEPT !.aborted[w] = TRUE]
    /\ UNCHANGED <<ScanActive, OtherWork, ScanTimer, CcTotalDirtyPages, budgetVars,
                   CcDeferredWrites, links, CcPostTickWorkQueue, queueVars, sc, wt>>

\* the lock courtesy: the master lock is taken again, the map is released and
\* the loop goes on
ScanCourtesyResumeUpTo(w, canWrite, fuel) ==
    /\ wk[w].pc = "ScanCourtesy"
    /\ MasterLock = 0
    /\ LET l == sc[w]
           cur == l.SharedCacheMap
       IN  ScanLoop(w, LoopBackLinks(links, l),
                    [scm EXCEPT ![cur].WriteQueued = FALSE, ![cur].DirtyPages = @ - 1],
                    LoopBackLocals(links, l), canWrite, hist, fuel)
    /\ UNCHANGED <<ScanActive, OtherWork, ScanTimer, CcTotalDirtyPages, budgetVars,
                   CcDeferredWrites, CcPostTickWorkQueue, queueVars, wt>>

ScanCourtesyResume(w, canWrite) == ScanCourtesyResumeUpTo(w, canWrite, LoopFuel(links))

\* the scan one iteration at a time: every inspection of a list entry under
\* the master lock is a step
ScanTopInspects(w, canWrite) == ScanTopUpTo(w, canWrite, 0)

ScanPostsAndInspects(w, canWrite) ==
    /\ wk[w].pc = "ScanAlloc"
    /\ MasterLock = 0
    /\ PostWriteBehindUpTo(w, canWrite, 0)

ScanCourtesyInspects(w, canWrite) == ScanCourtesyResumeUpTo(w, canWrite, 0)

ScanInspects(w, canWrite) ==
    /\ wk[w].pc = "ScanLoop"
    /\ MasterLock = w
    /\ ScanLoop(w, links, scm, sc[w], canWrite, hist, 0)
    /\ UNCHANGED <<ScanActive, OtherWork, ScanTimer, CcTotalDirtyPages, budgetVars,
                   CcDeferredWrites, CcPostTickWorkQueue, queueVars, wt>>

\* after the loop: one of the post-tick entries pulled at the top is posted to
\* the regular queue; the master lock is released after the last one
ScanPostTick(w) ==
    /\ wk[w].pc = "ScanEnd"
    /\ MasterLock = w
    /\ LET P == sc[w].PostTickWorkQueue
           r == CcPostWorkQueue(CcRegularWorkQueue, Head(P), CcIdleWorkerThreadList,
                                CcNumberActiveWorkerThreads, CcQueueThrottle)
           pc == ScanPcAt("end", Tail(P))
       IN  /\ CcRegularWorkQueue' = r[1]
           /\ CcIdleWorkerThreadList' = r[2]
           /\ CcNumberActiveWorkerThreads' = r[3]
           /\ sc' = [sc EXCEPT ![w].PostTickWorkQueue = Tail(P)]
           /\ hist' = [hist EXCEPT !.moved = @ \cup {Head(P).Arg}]
           /\ MasterLock' = IF HoldsMasterLockAt(pc) THEN w ELSE 0
           /\ wk' = [wk EXCEPT ![w].pc = pc]
    /\ UNCHANGED <<ScanActive, OtherWork, ScanTimer, CcTotalDirtyPages, budgetVars,
                   CcDeferredWrites, links, scm, CcPostTickWorkQueue,
                   CcExpressWorkQueue, CcQueueThrottle, wt>>

\* is CcPostDeferredWrites called: always on the early return of line 176, and
\* at the end of a full tick when the list is not empty (line 376)
PokesDeferredWrites(tick, deferred) == tick = "quiescent" \/ deferred

\* variant that looks at CcPostTickWorkQueue again before it returns and posts
\* the entry it finds there
ScanRescheduleDrains(w, drained) ==
    /\ wk[w].pc = "ScanResched"
    /\ CcDeferredWrites' = (CcDeferredWrites /\ ~drained)
    /\ LET r == CcScheduleLazyWriteScan(FALSE, ScanActive)
       IN  /\ ScanActive' = r[1]
           /\ ScanTimer' = r[2]
    /\ wk' = [wk EXCEPT ![w] = ScanReturn(w)]
    /\ sc' = [sc EXCEPT ![w] = ScanLocals]
    /\ hist' = IdleCallHistory(NoTickHistory(hist, w), ScanActive)
    /\ IF CcPostTickWorkQueue = <<>>
       THEN UNCHANGED <<CcPostTickWorkQueue, queueVars>>
       ELSE LET p == CcPostWorkQueue(CcRegularWorkQueue, Head(CcPostTickWorkQueue),
                                     CcIdleWorkerThreadList,
                                     CcNumberActiveWorkerThreads, CcQueueThrottle)
            IN  /\ CcPostTickWorkQueue' = Tail(CcPostTickWorkQueue)
                /\ CcRegularWorkQueue' = p[1]
                /\ CcIdleWorkerThreadList' = p[2]
                /\ CcNumberActiveWorkerThreads' = p[3]
                /\ UNCHANGED <<CcExpressWorkQueue, CcQueueThrottle>>
    /\ UNCHANGED <<OtherWork, CcTotalDirtyPages, budgetVars, links, scm,
                   MasterLock, wt>>

\* the deferred writes are poked (drained tells whether that empties their
\* list) and the next scan is scheduled; the scan returns
ScanReschedule(w, drained) ==
    /\ wk[w].pc = "ScanResched"
    /\ CcDeferredWrites' = (CcDeferredWrites /\ ~drained)
    /\ LET r == CcScheduleLazyWriteScan(FALSE, ScanActive)
       IN  /\ ScanActive' = r[1]
           /\ ScanTimer' = r[2]
    /\ wk' = [wk EXCEPT ![w] = ScanReturn(w)]
    /\ sc' = [sc EXCEPT ![w] = ScanLocals]
    /\ hist' = IdleCallHistory(NoTickHistory(hist, w), ScanActive)
    /\ UNCHANGED <<OtherWork, CcTotalDirtyPages, budgetVars, links, scm,
                   CcPostTickWorkQueue, queueVars, MasterLock, wt>>

\* the same statement by statement: the deferred writes are poked and the scan
\* enters CcScheduleLazyWriteScan(FALSE), which reads ScanActive ...
ScanCallsSchedule(w, drained) ==
    /\ wk[w].pc = "ScanResched"
    /\ CcDeferredWrites' = (CcDeferredWrites /\ ~drained)
    /\ wk' = [wk EXCEPT ![w].pc = "ScanSchedule"]
    /\ sc' = [sc EXCEPT ![w].Sched = ScheduleCall(FALSE, ScanActive)]
    /\ UNCHANGED <<ScanActive, OtherWork, ScanTimer, CcTotalDirtyPages, budgetVars,
                   links, scm, CcPostTickWorkQueue, queueVars, MasterLock, wt, hist>>

\* ... and makes its next write; after the last one the scan returns
ScanScheduleWrites(w) ==
    /\ wk[w].pc = "ScanSchedule"
    /\ ScheduleWriteMade(sc[w].Sched)
    /\ LET rest == Tail(sc[w].Sched.Writes)
       IN  IF rest = <<>>
           THEN /\ wk' = [wk EXCEPT ![w] = ScanReturn(w)]
                /\ sc' = [sc EXCEPT ![w] = ScanLocals]
                /\ hist' = IdleCallHistory(NoTickHistory(hist, w), sc[w].Sched.Active)
           ELSE /\ wk' = wk
                /\ sc' = [sc EXCEPT ![w].Sched.Writes = rest,
                                    ![w].Sched.Done =
                                        Append(@, Head(sc[w].Sched.Writes))]
                /\ hist' = hist
    /\ UNCHANGED <<OtherWork, CcTotalDirtyPages, budgetVars, CcDeferredWrites, links,
                   scm, CcPostTickWorkQueue, queueVars, MasterLock, wt>>

----------------------------------------------------------------------------
(* Exceptions *)

\* CcExceptionFilter, for a status FsRtlIsNtstatusExpected answers expected for
CcExceptionFilter(expected) ==
    IF expected THEN "EXCEPTION_EXECUTE_HANDLER" ELSE "EXCEPTION_CONTINUE_SEARCH"

\* variant in which the scan goes on after an expected status
ScanExceptionSwallowed(expected) ==
    IF expected THEN "ScanResched" ELSE "Unhandled"

\* where an exception raised in the scan body leaves the thread: in CcBugCheck,
\* called by the handler of line 386, or out of the lazy writer's code with the
\* exception unhandled, when the filter passes it on (the filter of line 536
\* is the same one and passes it on too)
ScanExceptionPc(expected) ==
    IF CcExceptionFilter(expected) = "EXCEPTION_EXECUTE_HANDLER"
    THEN "BugCheck" ELSE "Unhandled"

\* the system is stopped: a thread is in CcBugCheck or has an unhandled exception
Stopped == \E w \in Workers : wk[w].pc \in {"BugCheck", "Unhandled"}

\* CcPostDeferredWrites raises in the scan of worker w
ScanRaises(w, expected) ==
    /\ wk[w].pc = "ScanResched"
    /\ PokesDeferredWrites(hist.tick[w], CcDeferredWrites)
    /\ wk' = [wk EXCEPT ![w].pc = ScanExceptionPc(expected),
                        ![w].ExceptionCode =
                            IF expected THEN "expected" ELSE "unexpected"]
    /\ UNCHANGED <<ScanActive, OtherWork, ScanTimer, CcTotalDirtyPages, budgetVars,
                   CcDeferredWrites, links, scm, CcPostTickWorkQueue, queueVars,
                   MasterLock, sc, wt, hist>>

\* variant of the handler that leaves the flag as it is
HandlerKeepsMemoryMaker(entry, flag) == flag

\* the handler of lines 536-543: the thread's MemoryMaker after it
HandlerMemoryMaker(entry, flag) ==
    IF entry.Function = "WriteBehind" THEN FALSE ELSE flag

\* CcWriteBehind raises in worker w.  An expected status is handled at line
\* 536: the assignments of lines 523-524 are skipped and the entry is freed;
\* the map is left as CcWriteBehind found it.  Another status is passed on.
WorkerWriteBehindRaises(w, expected) ==
    /\ wk[w].pc = "WriteBehind"
    /\ wk' = [wk EXCEPT ![w] =
                IF CcExceptionFilter(expected) = "EXCEPTION_EXECUTE_HANDLER"
                THEN [@ EXCEPT !.pc = "top",
                               !.MemoryMaker = HandlerMemoryMaker(wk[w].Entry, @),
                               !.ExceptionCode = "expected",
                               !.Entry = IF wk[w].Information = CC_REQUEUE
                                         THEN @ ELSE NoEntry]
                ELSE [@ EXCEPT !.pc = "Unhandled", !.ExceptionCode = "unexpected"]]
    /\ UNCHANGED <<ScanActive, OtherWork, ScanTimer, CcTotalDirtyPages, budgetVars,
                   CcDeferredWrites, links, scm, CcPostTickWorkQueue, queueVars,
                   MasterLock, sc, wt, hist>>

----------------------------------------------------------------------------
(* Worker pool *)

\* ExQueueWorkItem's effect: a thread starts CcWorkerThread for a worker context
\* that CcPostWorkQueue took off the idle list
WorkerStart(w) ==
    /\ wk[w].pc = "stopped"
    /\ \A i \in 1..Len(CcIdleWorkerThreadList) : CcIdleWorkerThreadList[i] # w
    /\ wk' = [wk EXCEPT ![w] = [WorkerLocals EXCEPT !.pc = "top"]]
    /\ UNCHANGED <<ScanActive, OtherWork, ScanTimer, CcTotalDirtyPages, budgetVars,
                   CcDeferredWrites, links, scm, CcPostTickWorkQueue, queueVars,
                   MasterLock, sc, wt, hist>>

\* the state a worker leaves its dispatch switch in, by the entry's function
DispatchPc(entry) ==
    IF entry.Function = "LazyWriteScan" THEN "ScanTop" ELSE entry.Function

\* variant that puts the entry back on either queue
RequeuedOnBoth(queue, name, l) ==
    IF l.Information = CC_REQUEUE
    THEN Append(queue, l.Entry) ELSE queue

\* variant that puts the entry back at the head of the queue
RequeuedAtHead(queue, name, l) ==
    IF l.Information = CC_REQUEUE /\ l.WorkQueue = name
    THEN <<l.Entry>> \o queue ELSE queue

\* the queue called name after lines 481-484, for the worker whose locals are l
Requeued(queue, name, l) ==
    IF l.Information = CC_REQUEUE /\ l.WorkQueue = name
    THEN Append(queue, l.Entry) ELSE queue

\* variant that looks at the regular queue first
SelectQueueRegularFirst(express, regular) ==
    IF regular # <<>> THEN "regular"
    ELSE IF express # <<>> THEN "express" ELSE "none"

\* the choice of lines 487-493
SelectQueue(express, regular) ==
    IF express # <<>> THEN "express"
    ELSE IF regular # <<>> THEN "regular" ELSE "none"

\* variant that throttles in front of every EventSet entry
ThrottlesAlone(head, active) ==
    head.Function = "EventSet"

\* variant that throttles only with more than two active workers
ThrottlesAboveTwo(head, active) ==
    head.Function = "EventSet" /\ active > 2

\* the test of line 497 on the entry at the head of the chosen queue
Throttles(head, active) ==
    head.Function = "EventSet" /\ active > 1

\* the work-queue critical section at the top of the loop, from after
\* CcAcquireWorkQueueLock to CcReleaseWorkQueueLock (line 506 or line 554)
WorkerPass(w) ==
    /\ LET l == wk[w]
           throttle == IF l.DropThrottle THEN FALSE ELSE CcQueueThrottle
           requeue == l.Information = CC_REQUEUE
           express == Requeued(CcExpressWorkQueue, "express", l)
           regular == Requeued(CcRegularWorkQueue, "regular", l)
           l1 == [l EXCEPT !.DropThrottle = FALSE, !.Information = 0,
                           !.ExceptionCode = "none",
                           !.Entry = IF requeue THEN NoEntry ELSE @]
           queue == SelectQueue(express, regular)
           head == IF queue = "express" THEN Head(express)
                   ELSE IF queue = "regular" THEN Head(regular) ELSE NoEntry
           throttles == queue # "none"
                        /\ Throttles(head, CcNumberActiveWorkerThreads)
       IN  IF queue = "none" \/ throttles
           THEN \* no more work: the worker context goes back to the idle list
                /\ CcQueueThrottle' = (throttle \/ throttles)
                /\ CcExpressWorkQueue' = express
                /\ CcRegularWorkQueue' = regular
                /\ CcIdleWorkerThreadList' = Append(CcIdleWorkerThreadList, w)
                /\ CcNumberActiveWorkerThreads' = CcNumberActiveWorkerThreads - 1
                /\ wk' = [wk EXCEPT ![w] =
                            [WorkerLocals EXCEPT !.pc = "exit",
                                                 !.RescanOk = l.RescanOk]]
           ELSE \* the head entry is popped
                /\ CcQueueThrottle' = throttle
                /\ CcExpressWorkQueue' = IF queue = "express" THEN Tail(express)
                                         ELSE express
                /\ CcRegularWorkQueue' = IF queue = "regular" THEN Tail(regular)
                                         ELSE regular
                /\ UNCHANGED <<CcIdleWorkerThreadList, CcNumberActiveWorkerThreads>>
                /\ wk' = [wk EXCEPT ![w] =
                            [l1 EXCEPT !.pc = DispatchPc(head),
                                       !.Entry = head,
                                       !.WorkQueue = queue,
                                       !.MemoryMaker = (head.Function = "WriteBehind")]]
    /\ UNCHANGED <<ScanActive, OtherWork, ScanTimer, CcTotalDirtyPages, budgetVars,
                   CcDeferredWrites, links, scm, CcPostTickWorkQueue, MasterLock,
                   sc, wt, hist>>

\* one pass through the work-queue critical section at the top of the loop
WorkerLoop(w) ==
    /\ wk[w].pc = "top"
    /\ WorkQueueLock = 0
    /\ WorkerPass(w)

\* the same in two steps: the worker acquires the work-queue lock (line 473) ...
WorkerAcquiresWorkQueueLock(w) ==
    /\ wk[w].pc = "top"
    /\ WorkQueueLock = 0
    /\ wk' = [wk EXCEPT ![w].pc = "QueueLocked"]
    /\ UNCHANGED <<ScanActive, OtherWork, ScanTimer, CcTotalDirtyPages, budgetVars,
                   CcDeferredWrites, links, scm, CcPostTickWorkQueue, queueVars,
                   MasterLock, sc, wt, hist>>

\* ... and goes through the critical section to the release
WorkerLeavesWorkQueueLock(w) ==
    /\ wk[w].pc = "QueueLocked"
    /\ WorkerPass(w)

\* what CcWriteBehind does to the map it was given, by its outcome:
\* "written" (success), "failed" (an error status) and "requeue" (CC_REQUEUE)
WriteBehindDone(S, outcome) ==
    IF outcome = "written"
    THEN [S EXCEPT !.WriteQueued = FALSE,
                   !.DirtyPages = IF S.PagesToWrite >= @ THEN 0 ELSE @ - S.PagesToWrite]
    ELSE IF outcome = "failed" THEN [S EXCEPT !.WriteQueued = FALSE]
    ELSE S

PagesWritten(S, outcome) ==
    IF outcome = "written"
    THEN (IF S.PagesToWrite >= S.DirtyPages THEN S.DirtyPages ELSE S.PagesToWrite)
    ELSE 0

\* the returns of CcWriteBehind in a worker's activation: has one completed the
\* write successfully (some), and had the latest a success status (last)
WroteAfter(wrote, outcome) ==
    [some |-> wrote.some \/ outcome = "written", last |-> outcome # "failed"]

\* the WriteBehind case of the dispatch switch
WorkerWriteBehind(w, outcome) ==
    /\ wk[w].pc = "WriteBehind"
    /\ MasterLock = 0
    /\ LET s == wk[w].Entry.Arg
           S == WriteBehindDone(scm[s], outcome)
           completes == outcome # "requeue"
       IN  /\ scm' = [scm EXCEPT ![s] = S]
           /\ CcTotalDirtyPages' = CcTotalDirtyPages - PagesWritten(scm[s], outcome)
           /\ links' = IF completes /\ S.DirtyPages = 0 /\ InList(links, s)
                       THEN Unlink(links, s) ELSE links
           /\ wk' = [wk EXCEPT ![w] =
                       [@ EXCEPT !.pc = "top",
                                 !.RescanOk = (outcome # "failed"),
                                 !.MemoryMaker = FALSE,
                                 !.Information = IF completes THEN 0 ELSE CC_REQUEUE,
                                 !.Entry = IF completes THEN NoEntry ELSE @]]
           /\ hist' = IF completes
                      THEN [hist EXCEPT
                              !.wrote[w] = WroteAfter(@, outcome),
                              !.dirty[s] = @ - PagesWritten(scm[s], outcome),
                              !.owedWB = [u \in Waiters |->
                                  IF wt[u].Event THEN @[u] ELSE @[u] \ {s}],
                              !.tickOwed = [u \in Waiters |->
                                  IF wt[u].Event THEN @[u] ELSE @[u] \ {s}],
                              !.closeOwed = [u \in Waiters |->
                                  IF wt[u].Event THEN @[u] ELSE @[u] \ {s}]]
                      ELSE [hist EXCEPT !.wrote[w] = WroteAfter(@, outcome)]
    /\ UNCHANGED <<ScanActive, OtherWork, ScanTimer, budgetVars, CcDeferredWrites,
                   CcPostTickWorkQueue, queueVars, MasterLock, sc, wt>>

\* the EventSet case: KeSetEvent
WorkerEventSet(w) ==
    /\ wk[w].pc = "EventSet"
    /\ wt' = [wt EXCEPT ![wk[w].Entry.Arg].Event = TRUE]
    /\ wk' = [wk EXCEPT ![w] = [@ EXCEPT !.pc = "top", !.DropThrottle = TRUE,
                                         !.Entry = NoEntry]]
    /\ UNCHANGED <<ScanActive, OtherWork, ScanTimer, CcTotalDirtyPages, budgetVars,
                   CcDeferredWrites, links, scm, CcPostTickWorkQueue, queueVars,
                   MasterLock, sc, hist>>

\* variant of the test that wants more pages than the threshold
RescanWantedAboveThreshold(deferred, total, ok) ==
    deferred /\ total > RescanThreshold /\ ok

\* the test of line 556
RescanWanted(deferred, total, ok) ==
    deferred /\ total >= RescanThreshold /\ ok

\* after the loop: the idle worker's last action
WorkerExit(w) ==
    /\ wk[w].pc = "exit"
    /\ wk' = [wk EXCEPT ![w] =
                IF RescanWanted(CcDeferredWrites, CcTotalDirtyPages, wk[w].RescanOk)
                THEN [@ EXCEPT !.pc = "ScanTop"] ELSE WorkerLocals]
    /\ hist' = [hist EXCEPT !.wrote[w] = [some |-> FALSE, last |-> FALSE]]
    /\ UNCHANGED <<ScanActive, OtherWork, ScanTimer, CcTotalDirtyPages, budgetVars,
                   CcDeferredWrites, links, scm, CcPostTickWorkQueue, queueVars,
                   MasterLock, sc, wt>>

----------------------------------------------------------------------------
(* The collaborators' side of the interface *)

\* pages of a stream are dirtied: the stream enters the dirty list when it is
\* not there, and the caller schedules a scan when none is active
DirtyPagesAdded(s) ==
    /\ MasterLock = 0
    /\ hist.dirtyEvents < MaxDirtyEvents
    /\ scm' = [scm EXCEPT ![s].DirtyPages = @ + DirtyQuantum, ![s].OpenCount = 1]
    /\ CcTotalDirtyPages' = CcTotalDirtyPages + DirtyQuantum
    /\ links' = IF InList(links, s) THEN links
                ELSE InsertTailList(links, CcDirtySharedCacheMapList, s)
    /\ LET r == IF ~ScanActive THEN CcScheduleLazyWriteScan(FALSE, ScanActive)
                ELSE <<ScanActive, ScanTimer>>
       IN  /\ ScanActive' = r[1]
           /\ ScanTimer' = r[2]
    /\ hist' = [hist EXCEPT !.dirtyEvents = @ + 1, !.dirty[s] = @ + DirtyQuantum]
    /\ UNCHANGED <<OtherWork, budgetVars, CcDeferredWrites, CcPostTickWorkQueue,
                   queueVars, MasterLock, wk, sc, wt>>

\* a thread asks for the teardown of a stream of the dirty list and waits for
\* it: WAITING_FOR_TEARDOWN is set under the master lock
TeardownRequested(s) ==
    /\ MasterLock = 0
    /\ InList(links, s)
    /\ ~scm[s].Teardown
    /\ scm' = [scm EXCEPT ![s].Teardown = TRUE]
    /\ UNCHANGED <<ScanActive, OtherWork, ScanTimer, CcTotalDirtyPages, budgetVars,
                   CcDeferredWrites, links, CcPostTickWorkQueue, queueVars,
                   MasterLock, wk, sc, wt, hist>>

\* the deferred writes are issued by their own threads: the list empties
DeferredWritesIssued ==
    /\ CcDeferredWrites
    /\ CcDeferredWrites' = FALSE
    /\ UNCHANGED <<ScanActive, OtherWork, ScanTimer, CcTotalDirtyPages, budgetVars,
                   links, scm, CcPostTickWorkQueue, queueVars, MasterLock, wk, sc,
                   wt, hist>>

----------------------------------------------------------------------------
(* Initial states *)

RECURSIVE SeqOfSet(_)
\* the members of a set of integers, in ascending order
SeqOfSet(S) ==
    IF S = {} THEN <<>>
    ELSE LET m == CHOOSE x \in S : \A y \in S : x <= y
         IN  <<m>> \o SeqOfSet(S \ {m})

\* the circular list of the nodes of order; every other node of N points at
\* itself
LinksOver(N, order) ==
    LET n == Len(order)
        pos(x) == CHOOSE i \in 1..n : order[i] = x
        in(x) == \E i \in 1..n : order[i] = x
    IN  [Flink |-> [x \in N |-> IF in(x) THEN order[(pos(x) % n) + 1] ELSE x],
         Blink |-> [x \in N |-> IF in(x) THEN order[((pos(x) + n - 2) % n) + 1]
                                ELSE x]]

LinksOf(order) == LinksOver(Nodes, order)

\* a stream at the start: "absent" (not in the dirty list), "dirty" (open, with
\* dirty pages), "closing" (no handle left, nothing dirty: a lazy close),
\* "metadata" (MODIFIED_WRITE_DISABLED, due at the next tick), "resting"
\* (MODIFIED_WRITE_DISABLED, flushed at the tick before) or "teardown"
\* (WAITING_FOR_TEARDOWN)
InitialStream(kind) ==
    [DirtyPages |-> IF kind \in {"dirty", "metadata", "resting", "teardown"}
                    THEN DirtyQuantum ELSE 0,
     PagesToWrite |-> 0,
     WriteQueued |-> FALSE, Mwd |-> (kind \in {"metadata", "resting"}),
     Teardown |-> (kind = "teardown"),
     Temp |-> FALSE,
     OpenCount |-> IF kind = "closing" THEN 0 ELSE 1,
     FileSize |-> 1,
     PassCount |-> IF kind = "metadata" THEN PassCountMask - 1 ELSE 0]

StreamKinds == {"absent", "dirty", "closing", "metadata", "resting", "teardown"}

RECURSIVE SumDirty(_, _)
SumDirty(f, S) ==
    IF S = {} THEN 0
    ELSE LET s == CHOOSE x \in S : TRUE
         IN  f[s].DirtyPages + SumDirty(f, S \ {s})

InitHistory ==
    [scans |-> 0, dirtyEvents |-> 0, calls |-> 0, fired |-> 0, external |-> 0,
     owedWB |-> [u \in Waiters |-> {}],
     tickOwed |-> [u \in Waiters |-> {}],
     closeOwed |-> [u \in Waiters |-> {}],
     moved |-> {}, moves |-> {},
     dirty |-> <<>>,
     visits |-> [w \in Workers |-> <<>>],
     wrote |-> [w \in Workers |-> [some |-> FALSE, last |-> FALSE]],
     closeDue |-> [w \in Workers |-> {}],
     cursorMove |-> [w \in Workers |-> NoCursorMove],
     inspect |-> NoInspection,
     teardown |-> [w \in Workers |-> [seen |-> FALSE, late |-> FALSE]],
     tick |-> [w \in Workers |-> "none"],
     tickStart |-> [w \in Workers |-> <<>>],
     budget |-> [w \in Workers |-> 0],
     sum |-> [w \in Workers |-> 0],
     aborted |-> [w \in Workers |-> FALSE]]

\* the history at the start of a run over the maps M
HistoryOver(M) ==
    [InitHistory EXCEPT !.dirty = [s \in DOMAIN M |-> M[s].DirtyPages]]

\* the lazy writer with the maps M, those of the sequence order in the dirty
\* list behind the cursor, every worker idle; a scan is scheduled exactly when
\* the list is not empty
InitState(M, order, deferred, size) ==
    /\ scm = M
    /\ links = LinksOver(DOMAIN M \cup {CcLazyWriterCursor, CcDirtySharedCacheMapList},
                         <<CcDirtySharedCacheMapList, CcLazyWriterCursor>> \o order)
    /\ CcTotalDirtyPages = SumDirty(M, DOMAIN M)
    /\ ScanActive = (order # <<>>)
    /\ ScanTimer = IF order # <<>> THEN "CcFirstDelay" ELSE "off"
    /\ OtherWork = FALSE
    /\ CcPagesWrittenLastTime = 0
    /\ CcDirtyPagesLastScan = 0
    /\ CcPagesYetToWrite = 0
    /\ CcDeferredWrites = deferred
    /\ CcCapturedSystemSize = size
    /\ CcPostTickWorkQueue = <<>>
    /\ CcExpressWorkQueue = <<>>
    /\ CcRegularWorkQueue = <<>>
    /\ CcIdleWorkerThreadList = SeqOfSet(Workers)
    /\ CcNumberActiveWorkerThreads = 0
    /\ CcQueueThrottle = FALSE
    /\ MasterLock = 0
    /\ wk = [w \in Workers |-> WorkerLocals]
    /\ sc = [w \in Workers |-> ScanLocals]
    /\ wt = [u \in Waiters |-> [pc |-> "idle", Event |-> FALSE, Sched |-> NoCall]]

InitMaps(M, order, deferred, size) ==
    /\ InitState(M, order, deferred, size)
    /\ hist = HistoryOver(M)

\* the lazy writer with the streams S and an inventory given by kinds, every
\* worker idle; a scan is scheduled exactly when the inventory is not empty
InitOver(S, kinds, deferred) ==
    InitMaps([s \in S |-> InitialStream(kinds[s])],
             SeqOfSet({s \in S : kinds[s] # "absent"}), deferred, "MmMediumSystem")

InitWith(kinds, deferred) == InitOver(Streams, kinds, deferred)

\* the flusher: the timer, the scans and the workers over every inventory
Init ==
    \E kinds \in [Streams -> {"absent", "dirty", "metadata"}], deferred \in BOOLEAN :
        InitWith(kinds, deferred)

Next ==
    \/ \E ok \in BOOLEAN : CcScanDpc(ok)
    \/ \E w \in Workers : WorkerStart(w)
    \/ \E w \in Workers : WorkerLoop(w)
    \/ \E w \in Workers, o \in {"written", "failed", "requeue"} : WorkerWriteBehind(w, o)
    \/ \E w \in Workers : WorkerExit(w)
    \/ \E w \in Workers, cw \in {{}, Streams} : ScanTop(w, cw)
    \/ \E w \in Workers, cw \in {{}, Streams} : ScanPostWriteBehind(w, cw)
    \/ \E w \in Workers : ScanAllocationFails(w)
    \/ \E w \in Workers, drained \in BOOLEAN : ScanReschedule(w, drained)
    \/ DeferredWritesIssued

Spec == Init /\ [][Next]_vars

\* the barrier: callers of CcWaitForCurrentLazyWriterActivity, the scans that
\* carry their events and the workers that signal them.  Deferred writes are
\* pending only over an inventory without dirty pages, so that no worker calls
\* the scan after going idle.
InitBarrier ==
    \E kinds \in [Streams -> {"dirty", "closing"}], deferred \in BOOLEAN :
        /\ deferred => \A s \in Streams : kinds[s] = "closing"
        /\ InitWith(kinds, deferred)

NextBarrier ==
    \/ CcScanDpc(TRUE)
    \/ \E u \in Waiters : WaitForCurrentActivity(u)
    \/ \E u \in Waiters : WaitAllocationFails(u)
    \/ \E u \in Waiters : WaitReturns(u)
    \/ \E w \in Workers : WorkerStart(w)
    \/ \E w \in Workers : WorkerLoop(w)
    \/ \E w \in Workers, o \in {"written", "requeue"} : WorkerWriteBehind(w, o)
    \/ \E w \in Workers : WorkerEventSet(w)
    \/ \E w \in Workers : WorkerExit(w)
    \/ \E w \in Workers, cw \in {{}, Streams} : ScanTop(w, cw)
    \/ \E w \in Workers, cw \in {{}, Streams} : ScanPostWriteBehind(w, cw)
    \/ \E w \in Workers : ScanAllocationFails(w)
    \/ \E w \in Workers : ScanPostTick(w)
    \/ \E w \in Workers, drained \in BOOLEAN : ScanReschedule(w, drained)

SpecBarrier == InitBarrier /\ [][NextBarrier]_vars

\* the scheduler: the callers of CcScheduleLazyWriteScan and the timer, over
\* an inventory that starts empty
InitScheduler ==
    \E deferred \in BOOLEAN : InitWith([s \in Streams |-> "absent"], deferred)

NextScheduler ==
    \/ \E fast \in BOOLEAN : ScheduleLazyWriteScanCalled(fast)
    \/ \E ok \in BOOLEAN : CcScanDpc(ok)
    \/ \E s \in Streams : DirtyPagesAdded(s)
    \/ \E w \in Workers : WorkerStart(w)
    \/ \E w \in Workers : WorkerLoop(w)
    \/ \E w \in Workers : WorkerWriteBehind(w, "written")
    \/ \E w \in Workers : WorkerExit(w)
    \/ \E w \in Workers, cw \in {{}, Streams} : ScanTop(w, cw)
    \/ \E w \in Workers, cw \in {{}, Streams} : ScanPostWriteBehind(w, cw)
    \/ \E w \in Workers, drained \in BOOLEAN : ScanReschedule(w, drained)

SpecScheduler == InitScheduler /\ [][NextScheduler]_vars

\* the locks: the scan's posting of a WriteBehind entry in two steps, so that
\* the state inside CcPostWorkQueue's critical section is a state of the model
InitLocks ==
    \E kinds \in [Streams -> {"absent", "dirty", "metadata"}] : InitWith(kinds, FALSE)

NextLocks ==
    \/ CcScanDpc(TRUE)
    \/ \E w \in Workers : WorkerStart(w)
    \/ \E w \in Workers : WorkerLoop(w)
    \/ \E w \in Workers : WorkerWriteBehind(w, "written")
    \/ \E w \in Workers : WorkerExit(w)
    \/ \E w \in Workers, cw \in {{}, Streams} : ScanTop(w, cw)
    \/ \E w \in Workers : ScanEntersPostWorkQueue(w)
    \/ \E w \in Workers, cw \in {{}, Streams} : ScanLeavesPostWorkQueue(w, cw)
    \/ \E w \in Workers, drained \in BOOLEAN : ScanReschedule(w, drained)

SpecLocks == InitLocks /\ [][NextLocks]_vars

\* the order of the locks: every acquisition of the work-queue lock by a
\* worker and by a scan is a step of its own
NextOrder ==
    \/ CcScanDpc(TRUE)
    \/ \E w \in Workers : WorkerStart(w)
    \/ \E w \in Workers : WorkerAcquiresWorkQueueLock(w)
    \/ \E w \in Workers : WorkerLeavesWorkQueueLock(w)
    \/ \E w \in Workers : WorkerWriteBehind(w, "written")
    \/ \E w \in Workers : WorkerExit(w)
    \/ \E w \in Workers, cw \in {{}, Streams} : ScanTop(w, cw)
    \/ \E w \in Workers : ScanTakesMasterLock(w)
    \/ \E w \in Workers : ScanTakesWorkQueueLock(w)
    \/ \E w \in Workers, cw \in {{}, Streams} : ScanLeavesPostWorkQueue(w, cw)
    \/ \E w \in Workers, drained \in BOOLEAN : ScanReschedule(w, drained)

SpecOrder == InitLocks /\ [][NextOrder]_vars

\* the two work queues: streams waiting for teardown, whose entries go to the
\* express queue, CcWriteBehind asking to be run again, and the events
InitQueues ==
    \E kinds \in [Streams -> {"dirty", "teardown"}] : InitWith(kinds, FALSE)

NextQueues ==
    \/ CcScanDpc(TRUE)
    \/ \E u \in Waiters : WaitForCurrentActivity(u)
    \/ \E u \in Waiters : WaitReturns(u)
    \/ \E w \in Workers : WorkerStart(w)
    \/ \E w \in Workers : WorkerLoop(w)
    \/ \E w \in Workers, o \in {"written", "requeue"} : WorkerWriteBehind(w, o)
    \/ \E w \in Workers : WorkerEventSet(w)
    \/ \E w \in Workers : WorkerExit(w)
    \/ \E w \in Workers, cw \in {{}, Streams} : ScanTop(w, cw)
    \/ \E w \in Workers, cw \in {{}, Streams} : ScanPostWriteBehind(w, cw)
    \/ \E w \in Workers : ScanPostTick(w)
    \/ \E w \in Workers, drained \in BOOLEAN : ScanReschedule(w, drained)

SpecQueues == InitQueues /\ [][NextQueues]_vars

\* the exceptions: CcPostDeferredWrites raising in the scan and CcWriteBehind
\* raising in a worker; nothing runs once the system is stopped
InitExceptions ==
    \E kinds \in [Streams -> {"absent", "dirty"}], deferred \in BOOLEAN :
        InitWith(kinds, deferred)

NextExceptions ==
    \/ ~Stopped /\ CcScanDpc(TRUE)
    \/ \E w \in Workers : ~Stopped /\ WorkerStart(w)
    \/ \E w \in Workers : ~Stopped /\ WorkerLoop(w)
    \/ \E w \in Workers : ~Stopped /\ WorkerWriteBehind(w, "written")
    \/ \E w \in Workers, expected \in BOOLEAN :
           ~Stopped /\ WorkerWriteBehindRaises(w, expected)
    \/ \E w \in Workers : ~Stopped /\ WorkerExit(w)
    \/ \E w \in Workers, cw \in {{}, Streams} : ~Stopped /\ ScanTop(w, cw)
    \/ \E w \in Workers, cw \in {{}, Streams} : ~Stopped /\ ScanPostWriteBehind(w, cw)
    \/ \E w \in Workers, drained \in BOOLEAN : ~Stopped /\ ScanReschedule(w, drained)
    \/ \E w \in Workers, expected \in BOOLEAN : ~Stopped /\ ScanRaises(w, expected)

SpecExceptions == InitExceptions /\ [][NextExceptions]_vars

\* the scheduler statement by statement: the calls of CcScheduleLazyWriteScan
\* made by the scan and by CcWaitForCurrentLazyWriterActivity, one write at a
\* time, with the timer and the workers running between them
InitSchedule ==
    \E kinds \in [Streams -> {"absent", "dirty"}], deferred \in BOOLEAN :
        InitWith(kinds, deferred)

NextSchedule ==
    \/ \E ok \in BOOLEAN : CcScanDpc(ok)
    \/ \E u \in Waiters : ScanActive /\ WaitForCurrentActivity(u)
    \/ \E u \in Waiters : WaitCallsSchedule(u)
    \/ \E u \in Waiters : WaitScheduleWrites(u)
    \/ \E u \in Waiters : WaitReturns(u)
    \/ \E w \in Workers : WorkerStart(w)
    \/ \E w \in Workers : WorkerLoop(w)
    \/ \E w \in Workers : WorkerWriteBehind(w, "written")
    \/ \E w \in Workers : WorkerEventSet(w)
    \/ \E w \in Workers : WorkerExit(w)
    \/ \E w \in Workers : ScanTop(w, {})
    \/ \E w \in Workers : ScanPostWriteBehind(w, {})
    \/ \E w \in Workers : ScanPostTick(w)
    \/ \E w \in Workers, drained \in BOOLEAN : ScanCallsSchedule(w, drained)
    \/ \E w \in Workers : ScanScheduleWrites(w)

SpecSchedule == InitSchedule /\ [][NextSchedule]_vars

\* the lock courtesy: a dirty list of LongListStreams streams, metadata streams
\* between two of their turns but for the last two, which may be ordinary dirty
\* streams; the scan is taken one inspection at a time
LongList == 1..LongListStreams

InitCourtesy ==
    \E last \in [{LongListStreams - 1, LongListStreams} -> {"resting", "dirty"}] :
        InitOver(LongList,
                 [s \in LongList |-> IF s \in DOMAIN last THEN last[s] ELSE "resting"],
                 FALSE)

NextCourtesy ==
    \/ CcScanDpc(TRUE)
    \/ \E w \in Workers : WorkerStart(w)
    \/ \E w \in Workers : WorkerLoop(w)
    \/ \E w \in Workers : WorkerWriteBehind(w, "written")
    \/ \E w \in Workers : WorkerExit(w)
    \/ \E w \in Workers : ScanTopInspects(w, {})
    \/ \E w \in Workers : ScanInspects(w, {})
    \/ \E w \in Workers : ScanPostsAndInspects(w, {})
    \/ \E w \in Workers : ScanCourtesyInspects(w, {})
    \/ \E w \in Workers : ScanReschedule(w, FALSE)

SpecCourtesy == InitCourtesy /\ [][NextCourtesy]_vars

\* the long dirty list again, with work entries that cannot be allocated
NextBias ==
    \/ NextCourtesy
    \/ \E w \in Workers : ScanAllocationFails(w)

SpecBias == InitCourtesy /\ [][NextBias]_vars

\* the moves of the cursor: a dirty list of ShortListStreams streams, the scan
\* taken one inspection at a time, allocations that may fail
ShortList == 1..ShortListStreams

InitMoves ==
    \E kinds \in [ShortList -> {"dirty", "closing", "metadata"}] :
        InitOver(ShortList, kinds, FALSE)

NextMoves ==
    \/ CcScanDpc(TRUE)
    \/ \E w \in Workers : WorkerStart(w)
    \/ \E w \in Workers : WorkerLoop(w)
    \/ \E w \in Workers : WorkerWriteBehind(w, "written")
    \/ \E w \in Workers : WorkerExit(w)
    \/ \E w \in Workers : ScanTopInspects(w, {})
    \/ \E w \in Workers : ScanInspects(w, {})
    \/ \E w \in Workers : ScanPostsAndInspects(w, {})
    \/ \E w \in Workers : ScanAllocationFails(w)
    \/ \E w \in Workers : ScanReschedule(w, FALSE)

SpecMoves == InitMoves /\ [][NextMoves]_vars

\* the barrier under fair scheduling: the timer fires when it is armed
\* (CcAllocateWorkQueueEntry may fail in its DPC), a worker thread that has
\* been started runs, CcWriteBehind returns, a scan goes on, and a caller
\* whose event is signalled returns.  A caller calls when it likes.
InitLive == InitWith([s \in Streams |-> "dirty"], FALSE)

NextLive ==
    \/ \E ok \in BOOLEAN : CcScanDpc(ok)
    \/ \E u \in Waiters : WaitForCurrentActivity(u)
    \/ \E u \in Waiters : WaitReturns(u)
    \/ \E w \in Workers : WorkerStart(w)
    \/ \E w \in Workers : WorkerLoop(w)
    \/ \E w \in Workers : WorkerWriteBehind(w, "written")
    \/ \E w \in Workers : WorkerEventSet(w)
    \/ \E w \in Workers : WorkerExit(w)
    \/ \E w \in Workers : ScanTop(w, Streams)
    \/ \E w \in Workers : ScanPostWriteBehind(w, Streams)
    \/ \E w \in Workers : ScanPostTick(w)
    \/ \E w \in Workers : ScanReschedule(w, FALSE)

FairLive ==
    /\ WF_vars(\E ok \in BOOLEAN : CcScanDpc(ok))
    /\ \A u \in Waiters : WF_vars(WaitReturns(u))
    /\ \A w \in Workers :
          /\ WF_vars(WorkerStart(w))
          /\ WF_vars(WorkerLoop(w))
          /\ WF_vars(WorkerWriteBehind(w, "written"))
          /\ WF_vars(WorkerEventSet(w))
          /\ WF_vars(WorkerExit(w))
          /\ WF_vars(ScanTop(w, Streams))
          /\ WF_vars(ScanPostWriteBehind(w, Streams))
          /\ WF_vars(ScanPostTick(w))
          /\ WF_vars(ScanReschedule(w, FALSE))

SpecLive == InitLive /\ [][NextLive]_vars /\ FairLive

\* the same, counting the inspections each tick makes of each stream
InitVisits ==
    \E kinds \in [ShortList -> {"dirty", "closing", "metadata"}] :
        LET M == [s \in ShortList |-> InitialStream(kinds[s])]
        IN  /\ InitState(M, SeqOfSet(ShortList), FALSE, "MmMediumSystem")
            /\ hist = [HistoryOver(M) EXCEPT
                          !.visits = [w \in Workers |-> [s \in ShortList |-> 0]]]

SpecVisits == InitVisits /\ [][NextMoves]_vars

\* the selection test: a map of the dirty list with every combination of the
\* fields the test reads, before or behind an ordinary dirty one, on a small
\* and on a larger system, CcCanIWrite answering either way; the scan is taken
\* one inspection at a time
TestedMaps ==
    {S \in [DirtyPages : {0, 1, MetadataOversize}, PagesToWrite : {0},
            WriteQueued : {FALSE}, Mwd : BOOLEAN, Teardown : BOOLEAN,
            Temp : BOOLEAN, OpenCount : {0, 1}, FileSize : {0, 1},
            PassCount : {0, PassCountMask - 1}] :
        S.DirtyPages > 0 \/ S.Teardown \/ S.OpenCount = 0}

InitSelection ==
    \E S \in TestedMaps, order \in {<<1, 2>>, <<2, 1>>},
       size \in {"MmSmallSystem", "MmMediumSystem"} :
        InitMaps([s \in Streams |-> IF s = 1 THEN S ELSE InitialStream("dirty")],
                 order, FALSE, size)

NextSelection ==
    \/ CcScanDpc(TRUE)
    \/ \E w \in Workers : WorkerStart(w)
    \/ \E w \in Workers : WorkerLoop(w)
    \/ \E w \in Workers : WorkerWriteBehind(w, "written")
    \/ \E w \in Workers : WorkerExit(w)
    \/ \E w \in Workers, cw \in SUBSET Streams : ScanTopInspects(w, cw)
    \/ \E w \in Workers, cw \in SUBSET Streams : ScanInspects(w, cw)
    \/ \E w \in Workers, cw \in SUBSET Streams : ScanPostsAndInspects(w, cw)
    \/ \E w \in Workers : ScanReschedule(w, FALSE)

SpecSelection == InitSelection /\ [][NextSelection]_vars

\* the page budget: dirty lists with totals on either side of the age target
\* and of the dirty page target, pages written and dirtied between the ticks
BudgetPages == {0, 1, 7, 8, 9, 100}

InitBudget ==
    \E d \in [Streams -> BudgetPages] :
        InitMaps([s \in Streams |->
                     IF d[s] = 0 THEN InitialStream("absent")
                     ELSE [InitialStream("dirty") EXCEPT !.DirtyPages = d[s]]],
                 SeqOfSet({s \in Streams : d[s] > 0}), FALSE, "MmMediumSystem")

NextBudget ==
    \/ CcScanDpc(TRUE)
    \/ \E w \in Workers : WorkerStart(w)
    \/ \E w \in Workers : WorkerLoop(w)
    \/ \E w \in Workers : WorkerWriteBehind(w, "written")
    \/ \E w \in Workers : WorkerExit(w)
    \/ \E w \in Workers : ScanTop(w, {})
    \/ \E w \in Workers : ScanPostWriteBehind(w, {})
    \/ \E w \in Workers : ScanReschedule(w, FALSE)
    \/ \E s \in Streams : DirtyPagesAdded(s)

SpecBudget == InitBudget /\ [][NextBudget]_vars

\* the queue of a WriteBehind entry: streams that wait for teardown from the
\* start or from some point on, which may lie between the dispatch of the
\* stream and the post of its entry
InitTeardown ==
    \E kinds \in [Streams -> {"dirty", "teardown", "closing"}] : InitWith(kinds, FALSE)

NextTeardown ==
    \/ CcScanDpc(TRUE)
    \/ \E w \in Workers : WorkerStart(w)
    \/ \E w \in Workers : WorkerLoop(w)
    \/ \E w \in Workers : WorkerWriteBehind(w, "written")
    \/ \E w \in Workers : WorkerExit(w)
    \/ \E w \in Workers : ScanTop(w, {})
    \/ \E w \in Workers : ScanPostWriteBehind(w, {})
    \/ \E w \in Workers : ScanReschedule(w, FALSE)
    \/ \E s \in Streams : TeardownRequested(s)

SpecTeardown == InitTeardown /\ [][NextTeardown]_vars

----------------------------------------------------------------------------
(* Properties *)

\* worker w is inside CcLazyWriteScan: past its first acquisition of the master
\* lock and not yet returned
ScanInProgress(w) ==
    wk[w].pc \in {"ScanLoop", "ScanAlloc", "ScanPosting", "ScanCourtesy", "ScanEnd",
                  "ScanResched"}

\* C1: at most one execution of CcLazyWriteScan is in progress at any time,
\* the scan a worker calls after it has gone idle included
AtMostOneScan ==
    Cardinality({w \in Workers : ScanInProgress(w)}) <= 1

\* the WriteBehind entries for stream s: in the queues, and held by workers
\* (being executed, or about to be put back after CC_REQUEUE)
OccurrencesIn(q, e) == Cardinality({i \in 1..Len(q) : q[i] = e})

WriteBehindEntries(s) ==
    OccurrencesIn(CcExpressWorkQueue, WriteBehindEntry(s))
    + OccurrencesIn(CcRegularWorkQueue, WriteBehindEntry(s))
    + Cardinality({w \in Workers : wk[w].Entry = WriteBehindEntry(s)})

\* C2: for every stream at most one WriteBehind entry exists, queued or
\* executing, and it exists only while WRITE_QUEUED is set: the scan never
\* dispatches a stream whose WRITE_QUEUED is set
OneWriteBehindPerStream ==
    \A s \in Streams :
        /\ WriteBehindEntries(s) <= 1
        /\ WriteBehindEntries(s) = 1 => scm[s].WriteQueued

\* a scan with pages to write went round the list and dispatched nothing, while
\* the WriteBehind of the only dirty stream was being executed
ScanSkippedWriteQueued ==
    \E w \in Workers, v \in Workers, s \in Streams :
        /\ wk[w].pc = "WriteBehind" /\ wk[w].Entry = WriteBehindEntry(s)
        /\ wk[v].pc = "ScanResched" /\ hist.tick[v] = "full"
        /\ ~hist.aborted[v] /\ hist.budget[v] > 0 /\ hist.sum[v] = 0
        /\ InList(links, s) /\ scm[s].DirtyPages > 0 /\ ~scm[s].Mwd
        /\ sc[v].FirstVisited # NULL

\* C3: CcWaitForCurrentLazyWriterActivity returns only after every WriteBehind
\* entry that was queued before the call has completed, the entries put back
\* after CC_REQUEUE included
WaitOutlastsQueuedWriteBehinds ==
    \A u \in Waiters : wt[u].pc = "returned" => hist.owedWB[u] = {}

\* C4: every WriteBehind dispatched by the tick that carries an EventSet entry
\* has completed before that entry's event is signalled
EventAfterTickWriteBehinds ==
    \A u \in Waiters : wt[u].Event => hist.tickOwed[u] = {}

\* C5: when CcWaitForCurrentLazyWriterActivity returns, every stream that was
\* available for lazy close at the call has had its WriteBehind dispatched and
\* completed
WaitCompletesLazyCloses ==
    \A u \in Waiters : wt[u].pc = "returned" => hist.closeOwed[u] = {}

\* a LazyWriteScan entry is in flight: queued, or held by the worker that
\* popped it and has not yet returned from the scan it runs for it
LazyWriteScanInFlight ==
    \/ OccurrencesIn(CcRegularWorkQueue, LazyWriteScanEntry) > 0
    \/ \E w \in Workers : wk[w].Entry = LazyWriteScanEntry

\* C6: ScanActive is set whenever the scan timer is armed or a LazyWriteScan
\* entry is queued or being executed
ScanActiveWhileScheduled ==
    (ScanTimer # "off" \/ LazyWriteScanInFlight) => ScanActive

\* the nodes of the list are linked both ways and Flink leads from the list
\* head round to the list head again
CircularDoublyLinked(L) ==
    LET order == ListOrder(L)
    IN  /\ Len(order) <= Cardinality(Nodes)
        /\ L.Flink[order[Len(order)]] = CcDirtySharedCacheMapList
        /\ \A i \in 1..Len(order) :
              /\ L.Blink[L.Flink[order[i]]] = order[i]
              /\ L.Flink[L.Blink[order[i]]] = order[i]
        /\ \A i, j \in 1..Len(order) : order[i] = order[j] => i = j

\* C7: the dirty list holds the lazy writer's cursor exactly once, and stays
\* circular and doubly linked through both moves of the cursor
CursorOnceInList ==
    /\ CircularDoublyLinked(links)
    /\ OccurrencesIn(ListOrder(links), CcLazyWriterCursor) = 1

\* the cursor has been spliced before a stream and moved behind another
CursorMovedBothWays ==
    /\ hist.moves = {"before", "behind"}
    /\ \E s \in Streams : InList(links, s)

\* worker w's scan returns in this step: from its end, or from the quiescence
\* test at its top
TickCompletes(w) ==
    /\ wk[w].pc \in {"ScanTop", "ScanResched"}
    /\ wk'[w].pc \in {"top", "stopped"}

\* the entries that were in CcPostTickWorkQueue when the tick of w started
TickStartEntries(w) ==
    IF wk[w].pc = "ScanTop" THEN CcPostTickWorkQueue ELSE hist.tickStart[w]

\* C8: when a tick completes, every entry that was in CcPostTickWorkQueue at its
\* start has been moved to the regular queue and none is left behind, also
\* when the tick returns early or its loop is left on an allocation failure
TickMovesPostTickEntries ==
    [][\A w \in Workers :
          TickCompletes(w) =>
              \A i \in 1..Len(TickStartEntries(w)) :
                  /\ TickStartEntries(w)[i].Arg \in hist.moved
                  /\ OccurrencesIn(CcPostTickWorkQueue', TickStartEntries(w)[i]) = 0]_vars

\* a tick that started with an entry in CcPostTickWorkQueue and left its loop on
\* an allocation failure is about to return
AbortedTickCarriedEntries ==
    \E w \in Workers :
        /\ wk[w].pc = "ScanResched"
        /\ hist.tickStart[w] # <<>>
        /\ hist.aborted[w]

\* worker w's tick went through its loop without an allocation failure and is
\* about to return
UnabortedTickEnds(w) ==
    /\ wk[w].pc = "ScanResched"
    /\ hist.tick[w] = "full"
    /\ ~hist.aborted[w]

\* C9 as stated: in a tick whose loop is not left on an allocation failure, the
\* PagesToWrite of the streams it dispatched sum to at least the budget
\* published at its start
DispatchedCoversBudget ==
    \A w \in Workers : UnabortedTickEnds(w) => hist.sum[w] >= hist.budget[w]

\* C9 amended: the sum reaches the budget in the ticks where a dispatched stream
\* exhausted it (the tick placed the cursor); in the others it is the budget
\* less what was left of it when the list had been gone round
DispatchedCoversBudgetWhenExhausted ==
    \A w \in Workers :
        UnabortedTickEnds(w) =>
            IF sc[w].AlreadyMoved
            THEN hist.sum[w] >= hist.budget[w]
            ELSE hist.sum[w] = hist.budget[w] - sc[w].PagesToWrite

\* a tick dispatched two streams, the second of which exhausted its budget
TickExhaustedBudget ==
    \E w \in Workers :
        /\ UnabortedTickEnds(w)
        /\ sc[w].AlreadyMoved
        /\ hist.budget[w] > DirtyQuantum
        /\ hist.sum[w] >= hist.budget[w]

LazyWriteScansQueued == OccurrencesIn(CcRegularWorkQueue, LazyWriteScanEntry)

\* the timer goes off in this step
TimerFires == ScanTimer # "off" /\ ScanTimer' = "off"

\* after one or more calls of CcScheduleLazyWriteScan(FALSE) that found
\* ScanActive set, the one timer is armed with the idle delay and ScanActive is
\* still set
IdleCallsKeepTimer ==
    hist.calls' >= 1 => ScanActive' /\ ScanTimer' = "CcIdleDelay"

\* C10 as stated: any number N >= 1 of calls of CcScheduleLazyWriteScan(FALSE)
\* with ScanActive set, before the timer fires, result in exactly one scan: the
\* timer is armed with the idle delay, ScanActive stays set, and exactly one
\* LazyWriteScan entry is posted when the timer fires
IdleCallsYieldOneScan ==
    [][/\ IdleCallsKeepTimer
       /\ hist.calls >= 1 /\ TimerFires =>
              /\ ScanActive'
              /\ LazyWriteScansQueued' = LazyWriteScansQueued + 1]_vars

\* C10 amended: exactly one LazyWriteScan entry is posted when the timer fires
\* and CcScanDpc gets its work entry; when the allocation fails no entry is
\* posted and ScanActive is cleared, so that the N calls result in no scan
IdleCallsYieldOneScanOrNone ==
    [][/\ IdleCallsKeepTimer
       /\ hist.calls >= 1 /\ TimerFires =>
              \/ /\ ScanActive'
                 /\ LazyWriteScansQueued' = LazyWriteScansQueued + 1
              \/ /\ ~ScanActive'
                 /\ LazyWriteScansQueued' = LazyWriteScansQueued]_vars

\* the timer has fired after two calls that found ScanActive set, and the one
\* LazyWriteScan entry it posted is in the queue
TimerFiredAfterTwoCalls ==
    /\ hist.fired >= 2
    /\ ScanTimer = "off"
    /\ ScanActive
    /\ LazyWriteScansQueued = 1

\* worker w's scan makes its quiescence test in this step
ScanStarts(w) == wk[w].pc = "ScanTop" /\ wk'[w].pc # "ScanTop"

\* worker w's scan goes idle in this step: it clears ScanActive and returns,
\* without arming the timer, poking the deferred writes or posting an entry
ScanGoesIdle(w) ==
    /\ ~ScanActive'
    /\ ScanTimer' = ScanTimer
    /\ wk'[w].pc \in {"top", "stopped"}
    /\ CcDeferredWrites' = CcDeferredWrites
    /\ CcExpressWorkQueue' = CcExpressWorkQueue
    /\ CcRegularWorkQueue' = CcRegularWorkQueue

\* C11 as stated: a scan that starts with CcTotalDirtyPages = 0 and an empty
\* deferred-write list goes idle in that one tick: it clears ScanActive, does
\* not arm the timer, does not poke the deferred writes and dispatches nothing
EmptyScanGoesIdle ==
    [][\A w \in Workers :
          ScanStarts(w) /\ CcTotalDirtyPages = 0 /\ ~CcDeferredWrites
              => ScanGoesIdle(w)]_vars

\* C11 amended: the scan goes idle so when, besides, OtherWork is clear; with
\* OtherWork set it runs a full tick and schedules the next scan
EmptyScanWithoutOtherWorkGoesIdle ==
    [][\A w \in Workers :
          ScanStarts(w) /\ CcTotalDirtyPages = 0 /\ ~CcDeferredWrites
              => IF OtherWork THEN hist'.tick[w] = "full" /\ ScanActive' = ScanActive
                 ELSE ScanGoesIdle(w)]_vars

\* a scan has run and gone idle: ScanActive is clear, no timer is armed, no
\* scan is queued or in progress, and the worker that ran it is back in its loop
ScanWentIdle ==
    \E w \in Workers :
        /\ hist.scans >= 1
        /\ wk[w].pc = "top"
        /\ wk[w].WorkQueue = "regular"
        /\ ~ScanActive
        /\ ScanTimer = "off"
        /\ CcTotalDirtyPages = 0
        /\ ~CcDeferredWrites
        /\ ~LazyWriteScanInFlight

\* worker w's scan, having found nothing dirty and the deferred-write list not
\* empty, pokes the deferred writes and schedules the next scan in this step
QuiescentScanReschedules(w) ==
    /\ wk[w].pc = "ScanResched"
    /\ hist.tick[w] = "quiescent"
    /\ wk'[w].pc # "ScanResched"

\* C12 as stated: a scan that starts with nothing dirty and a deferred-write
\* list that is not empty pokes the deferred writes, arms the timer with the
\* idle delay and leaves ScanActive as it was
QuiescentScanRearmsIdle ==
    [][\A w \in Workers :
          QuiescentScanReschedules(w) =>
              /\ PokesDeferredWrites(hist.tick[w], CcDeferredWrites)
              /\ ScanTimer' = "CcIdleDelay"
              /\ ScanActive' = ScanActive]_vars

\* C12 amended: such a scan pokes the deferred writes, arms the timer and never
\* clears ScanActive; the delay is the idle delay and ScanActive is left as it
\* was when ScanActive is set, and when it is clear (the scan is one a worker
\* called after the timer's DPC had cleared the flag) the scan sets it and the
\* delay is the first delay
QuiescentScanRearms ==
    [][\A w \in Workers :
          QuiescentScanReschedules(w) =>
              /\ PokesDeferredWrites(hist.tick[w], CcDeferredWrites)
              /\ ScanActive'
              /\ ScanTimer' = IF ScanActive THEN "CcIdleDelay" ELSE "CcFirstDelay"]_vars

\* a scan has found nothing dirty and deferred writes pending, with ScanActive
\* set, and is at its call of CcPostDeferredWrites
QuiescentScanAtPoke ==
    \E w \in Workers :
        /\ wk[w].pc = "ScanResched"
        /\ hist.tick[w] = "quiescent"
        /\ CcTotalDirtyPages = 0
        /\ CcDeferredWrites
        /\ ScanActive
        /\ ScanTimer = "off"

\* C13: no thread ever holds the master lock and the work-queue lock at the
\* same time, in particular not the scan while it posts an entry
NeverBothLocks ==
    \A w \in Workers : ~(MasterLock = w /\ WorkQueueLock = w)

\* an exception is raised in the scan body of worker w in this step
RaisedInScan(w) == wk[w].pc = "ScanResched" /\ wk'[w].ExceptionCode # "none"

MemoryMakerOnlyInWriteBehind ==
    \A w \in Workers :
        wk[w].MemoryMaker =>
            \/ wk[w].pc = "WriteBehind"
            \/ wk[w].pc = "Unhandled" /\ wk[w].Entry.Function = "WriteBehind"

\* a worker is back at the top of its loop after CcWriteBehind raised, with the
\* flag clear
WriteBehindRaisedAndFlagCleared ==
    \E w \in Workers :
        /\ wk[w].pc = "top"
        /\ wk[w].ExceptionCode = "expected"
        /\ wk[w].Entry = NoEntry
        /\ ~wk[w].MemoryMaker

\* caller u's CcWaitForCurrentLazyWriterActivity returns
\* STATUS_INSUFFICIENT_RESOURCES in this step
WaitFailsOnAllocation(u) == wt[u].pc = "idle" /\ wt'[u].pc = "failed"

\* C16: when the allocation of the EventSet entry fails,
\* CcWaitForCurrentLazyWriterActivity returns without waiting and leaves the
\* shared state as it was: nothing is added to CcPostTickWorkQueue, OtherWork
\* and ScanActive are untouched and no timer is armed
FailedWaitChangesNothing ==
    [][\A u \in Waiters :
          WaitFailsOnAllocation(u) =>
              /\ ~wt'[u].Event
              /\ UNCHANGED <<CcPostTickWorkQueue, OtherWork, ScanActive, ScanTimer,
                             CcTotalDirtyPages, CcDeferredWrites, links, scm,
                             queueVars, MasterLock, wk, sc>>]_vars

\* a caller was refused while the lazy writer was idle, and it stays idle
WaitFailedLazyWriterIdle ==
    \E u \in Waiters :
        /\ wt[u].pc = "failed"
        /\ ~OtherWork
        /\ CcPostTickWorkQueue = <<>>
        /\ ~ScanActive
        /\ ScanTimer = "off"

\* worker w pops an entry from the queue called name in this step
PopsFrom(w, name) ==
    /\ wk[w].pc = "top"
    /\ wk'[w].pc \notin {"top", "exit"}
    /\ wk'[w].WorkQueue = name

\* C17: a worker never removes an entry from the regular queue at a moment when
\* the express queue is not empty: the express queue is empty before and after
\* the critical section of every pop from the regular queue
RegularPoppedWhenExpressEmpty ==
    [][\A w \in Workers :
          PopsFrom(w, "regular") =>
              CcExpressWorkQueue = <<>> /\ CcExpressWorkQueue' = <<>>]_vars

\* two workers are executing entries, one popped from each queue
PoppedFromBothQueues ==
    \E w, v \in Workers :
        /\ wk[w].pc = "WriteBehind" /\ wk[w].WorkQueue = "regular"
        /\ wk[v].pc = "WriteBehind" /\ wk[v].WorkQueue = "express"

\* the work-queue entries that are allocated: queued, pulled by a scan or held
\* by a worker
RECURSIVE PulledEntries(_)
PulledEntries(W) ==
    IF W = {} THEN 0
    ELSE LET w == CHOOSE x \in W : TRUE
         IN  Len(sc[w].PostTickWorkQueue) + PulledEntries(W \ {w})

EntriesInExistence ==
    Len(CcExpressWorkQueue) + Len(CcRegularWorkQueue) + Len(CcPostTickWorkQueue)
    + PulledEntries(Workers)
    + Cardinality({w \in Workers : wk[w].Entry # NoEntry})

QueueCalled(name) ==
    IF name = "express" THEN CcExpressWorkQueue ELSE CcRegularWorkQueue

\* the same queue after the step
QueueCalledNext(name) ==
    IF name = "express" THEN CcExpressWorkQueue' ELSE CcRegularWorkQueue'

\* worker w passes the top of its loop in this step
PassesTop(w) == wk[w].pc = "top" /\ wk'[w] # wk[w]

\* worker w's dispatch ends in this step without CC_REQUEUE
DispatchEndsWithoutRequeue(w) ==
    /\ wk[w].Entry # NoEntry
    /\ wk[w].pc \notin {"top", "exit", "stopped"}
    /\ wk'[w].pc = "top"
    /\ wk'[w].Information # CC_REQUEUE

\* C19: an entry whose WriteBehind returned CC_REQUEUE is not freed and is put
\* back exactly once, at the tail of the queue it was popped from, before the
\* worker chooses its next entry; an entry whose dispatch did not return
\* CC_REQUEUE is freed exactly once and is not put back
RequeuedOnceOrFreedOnce ==
    [][\A w \in Workers :
          /\ PassesTop(w) /\ wk[w].Information = CC_REQUEUE =>
                LET e == wk[w].Entry
                    q == wk[w].WorkQueue
                    o == IF q = "express" THEN "regular" ELSE "express"
                    Q == Append(QueueCalled(q), e)
                IN  /\ e.Function = "WriteBehind"
                    /\ IF wk'[w].pc # "exit" /\ wk'[w].WorkQueue = q
                       THEN /\ QueueCalledNext(q) = Tail(Q)
                            /\ wk'[w].Entry = Head(Q)
                            /\ QueueCalledNext(o) = QueueCalled(o)
                       ELSE /\ QueueCalledNext(q) = Q
                            /\ Len(QueueCalledNext(o)) <= Len(QueueCalled(o))
                    /\ OccurrencesIn(QueueCalledNext(o), e) = 0
                    /\ EntriesInExistence' = EntriesInExistence
          /\ PassesTop(w) /\ wk[w].Information # CC_REQUEUE =>
                /\ Len(CcExpressWorkQueue') <= Len(CcExpressWorkQueue)
                /\ Len(CcRegularWorkQueue') <= Len(CcRegularWorkQueue)
                /\ EntriesInExistence' = EntriesInExistence
          /\ DispatchEndsWithoutRequeue(w) =>
                /\ wk'[w].Entry = NoEntry
                /\ EntriesInExistence' = EntriesInExistence - 1
                /\ wk[w].pc \in {"WriteBehind", "EventSet"} =>
                       /\ OccurrencesIn(CcExpressWorkQueue', wk[w].Entry) = 0
                       /\ OccurrencesIn(CcRegularWorkQueue', wk[w].Entry) = 0]_vars

\* CcWriteBehind has returned CC_REQUEUE to a worker that still holds the
\* entry, popped from the express queue, where another entry is waiting
RequeueBehindAnother ==
    \E w \in Workers :
        /\ wk[w].pc = "top"
        /\ wk[w].Information = CC_REQUEUE
        /\ wk[w].Entry.Function = "WriteBehind"
        /\ wk[w].WorkQueue = "express"
        /\ CcExpressWorkQueue # <<>>

\* worker w's scan leaves the quiescence test by its early return in this step
ScanReturnsEarly(w) == ScanStarts(w) /\ hist'.tick[w] # "full"

\* worker w's tick, having gone through its loop, schedules the next scan and
\* returns in this step
FullTickEnds(w) ==
    /\ wk[w].pc = "ScanResched"
    /\ hist.tick[w] = "full"
    /\ wk'[w].pc # "ScanResched"

TimerPostsOneScanOrClearsScanActive ==
    [][TimerFires =>
          /\ CcExpressWorkQueue' = CcExpressWorkQueue
          /\ CcPostTickWorkQueue' = CcPostTickWorkQueue
          /\ \/ /\ CcRegularWorkQueue' = Append(CcRegularWorkQueue, LazyWriteScanEntry)
                /\ ScanActive' = ScanActive
             \/ /\ CcRegularWorkQueue' = CcRegularWorkQueue
                /\ ~ScanActive']_vars

\* the timer has fired over dirty pages, CcScanDpc has got no work entry: no
\* scan is queued or running, none has run, and ScanActive is clear
TimerFiredWithoutWorkEntry ==
    /\ ScanTimer = "off"
    /\ ~ScanActive
    /\ ~LazyWriteScanInFlight
    /\ hist.scans = 0
    /\ CcTotalDirtyPages > 0
    /\ \A w \in Workers : wk[w].pc = "stopped"

\* the call c of CcScheduleLazyWriteScan makes its next write in this step as
\* the claim has it: the flag is set to TRUE with the timer left alone, or the
\* timer is armed, with no delay when fast, the idle delay when not fast and
\* ScanActive was set, the first delay when not fast and ScanActive was clear,
\* and then, on the paths that set the flag, the flag has been set by this call
ScheduleWriteInOrder(c) ==
    LET wr == Head(c.Writes)
        setsFlag == c.FastScan \/ ~c.Active
        flagSet == \E i \in 1..Len(c.Done) :
                       c.Done[i] = [field |-> "ScanActive", value |-> TRUE]
    IN  IF wr.field = "ScanActive"
        THEN /\ setsFlag
             /\ ScanActive'
             /\ ScanTimer' = ScanTimer
        ELSE /\ ScanTimer' = IF c.FastScan THEN "CcNoDelay"
                             ELSE IF c.Active THEN "CcIdleDelay"
                             ELSE "CcFirstDelay"
             /\ ScanActive' = ScanActive
             /\ setsFlag <=> flagSet
             /\ Tail(c.Writes) = <<>>

\* C23: CcScheduleLazyWriteScan sets ScanActive before it arms the timer on
\* both paths that change the flag (FastScan, and not FastScan with ScanActive
\* clear), and arms the timer with no delay when FastScan, with the idle delay
\* when not FastScan and ScanActive was set, with the first delay when not
\* FastScan and ScanActive was clear
ScanActiveSetBeforeTimerArmed ==
    [][/\ \A w \in Workers :
              wk[w].pc = "ScanSchedule" /\ (wk'[w] # wk[w] \/ sc'[w] # sc[w]) =>
                  ScheduleWriteInOrder(sc[w].Sched)
       /\ \A u \in Waiters :
              wt[u].pc = "scheduling" /\ wt'[u] # wt[u] =>
                  ScheduleWriteInOrder(wt[u].Sched)]_vars

\* the scan's call of CcScheduleLazyWriteScan(FALSE) found ScanActive clear and
\* has set it; the timer is not armed yet
ScanSetActiveTimerPending ==
    \E w \in Workers :
        /\ wk[w].pc = "ScanSchedule"
        /\ ~sc[w].Sched.Active
        /\ sc[w].Sched.Done = <<[field |-> "ScanActive", value |-> TRUE]>>
        /\ ScanActive
        /\ ScanTimer = "off"

\* the loop of worker w's tick ends in this step
LoopEnds(w) ==
    /\ wk[w].pc \notin {"ScanEnd", "ScanResched"}
    /\ wk'[w].pc \in {"ScanEnd", "ScanResched"}
    /\ hist'.tick[w] = "full"

\* worker w's scan splices the cursor before a stream in this step
SplicesBefore(w) ==
    /\ hist'.cursorMove[w] # hist.cursorMove[w]
    /\ hist'.cursorMove[w].how = "before"

PostsMoveBehind(w) ==
    /\ wk[w].pc = "ScanAlloc"
    /\ sc[w].MoveBehindCursor
    /\ hist'.cursorMove[w].how = "behind"
    /\ hist.cursorMove[w].how # "behind"

PassGate(S, small) ==
    \/ (S.PassCount + 1) % 16 = 0
    \/ ~S.Mwd
    \/ small
    \/ S.DirtyPages >= MetadataOversize

TempGate(S, canWrite) ==
    ~S.Temp \/ S.OpenCount = 0 \/ ~canWrite

\* the inspected entry i.S, the map i.was, is due for dispatch
DispatchDue(i, small) ==
    /\ ~IsCursorNode(i.S)
    /\ ~i.was.WriteQueued
    /\ \/ i.was.DirtyPages > 0 /\ i.was.Teardown
       \/ /\ i.was.DirtyPages > 0
          /\ i.PagesToWrite > 0
          /\ PassGate(i.was, small)
          /\ TempGate(i.was, i.canWrite)
       \/ i.was.OpenCount = 0 /\ i.was.DirtyPages = 0
       \/ i.was.FileSize = 0

\* the scan has dispatched the entry of inspection i: with the workers' places
\* K, the scans' locals C and the maps M, the map is marked WRITE_QUEUED and
\* the scan is allocating its work entry
Dispatched(i, K, C, M) ==
    /\ K[i.w].pc = "ScanAlloc"
    /\ C[i.w].SharedCacheMap = i.S
    /\ M[i.S].WriteQueued

\* the temporary file of the claim: open handles and dirty pages, the rest of
\* the test being up to CcCanIWrite
OpenTemporaryFile(i, small) ==
    /\ ~IsCursorNode(i.S)
    /\ i.was.Temp /\ i.was.OpenCount > 0 /\ i.was.DirtyPages > 0
    /\ ~i.was.WriteQueued /\ ~i.was.Teardown /\ i.was.FileSize # 0
    /\ i.PagesToWrite > 0 /\ PassGate(i.was, small)

\* C26: for every inspected stream S the scan dispatches S exactly when S is
\* neither WRITE_QUEUED nor a cursor and (it has dirty pages and waits for
\* teardown) or (it has dirty pages, pages are left in the budget, the pass
\* gate and the temporary-file gate pass) or (it has no opener and no dirty
\* page) or its file size is 0; a temporary file with open handles and dirty
\* pages up to the second alternative is dispatched when CcCanIWrite answers
\* FALSE and skipped when it answers TRUE
DispatchedExactlyWhenDue ==
    [][hist'.inspect # hist.inspect =>
          LET i == hist'.inspect
              done == Dispatched(i, wk', sc', scm')
          IN  /\ done <=> DispatchDue(i, SmallSystem)
              /\ OpenTemporaryFile(i, SmallSystem) => (done <=> ~i.canWrite)
              /\ ~done /\ ~IsCursorNode(i.S) =>
                     ~scm'[i.S].WriteQueued \/ i.was.WriteQueued]_vars

\* the scan has just skipped a temporary file with open handles and dirty
\* pages that CcCanIWrite allowed to be written
OpenTemporaryFileSkipped ==
    LET i == hist.inspect
    IN  /\ i.S \in Streams
        /\ OpenTemporaryFile(i, SmallSystem)
        /\ i.canWrite
        /\ wk[i.w].pc = "ScanLoop"
        /\ sc[i.w].SharedCacheMap = links.Flink[i.S]
        /\ ~scm[i.S].WriteQueued

Max(a, b) == IF a >= b THEN a ELSE b

\* worker w's scan computes the page budget of a tick in this step
ComputesBudget(w) ==
    /\ wk[w].pc = "ScanTop"
    /\ wk'[w].pc # "ScanTop"
    /\ hist'.tick[w] = "full"

\* C27: the budget of a tick is base + max(0, total - base + rate - target)
\* with base = total when total <= 8 and total div 8 otherwise, and rate =
\* max(0, total + pages written last time - dirty pages at the last scan);
\* the computation leaves the total in CcDirtyPagesLastScan and the budget in
\* CcPagesYetToWrite and CcPagesWrittenLastTime; total 100, target 1000 and
\* rate 0 give 12
BudgetAsComputed ==
    [][\A w \in Workers :
          ComputesBudget(w) =>
              LET total == CcTotalDirtyPages
                  base == IF total <= 8 THEN total ELSE total \div 8
                  rate == Max(0, total + CcPagesWrittenLastTime - CcDirtyPagesLastScan)
                  budget == base + Max(0, total - base + rate - CcDirtyPageTarget)
              IN  /\ hist'.budget[w] = budget
                  /\ CcDirtyPagesLastScan' = total
                  /\ CcPagesYetToWrite' = budget
                  /\ CcPagesWrittenLastTime' = budget
                  /\ TickBudgetFor(100, 0, 100, 1000) = 12]_vars

\* a later tick has computed a budget above its usual fraction, the total
\* being above the age target and pages having been dirtied since the tick
\* before
BudgetRaisedByForegroundRate ==
    \E w \in Workers :
        /\ hist.tick[w] = "full"
        /\ hist.scans >= 2
        /\ CcDirtyPagesLastScan > LAZY_WRITER_MAX_AGE_TARGET
        /\ hist.budget[w] > UsualFraction(CcDirtyPagesLastScan)
        /\ hist.dirtyEvents > 0

\* C28: in the budget computation PagesToWrite <= CcTotalDirtyPages holds when
\* CcTotalDirtyPages - PagesToWrite is taken, so the unsigned subtraction does
\* not wrap, and the budget is at least 1 whenever CcTotalDirtyPages is
SubtractionDoesNotWrap ==
    [][\A w \in Workers :
          ComputesBudget(w) =>
              /\ UsualFraction(CcTotalDirtyPages) <= CcTotalDirtyPages
              /\ UsualFraction(CcTotalDirtyPages) >= 0
              /\ CcTotalDirtyPages >= 1 =>
                     hist'.budget[w] >= 1 /\ CcPagesYetToWrite' >= 1]_vars

\* a tick has computed its budget with fewer dirty pages than the age target
\* and has them all to write
LastFewPagesBudgeted ==
    \E w \in Workers :
        /\ hist.tick[w] = "full"
        /\ CcDirtyPagesLastScan >= 1
        /\ CcDirtyPagesLastScan < LAZY_WRITER_MAX_AGE_TARGET
        /\ hist.budget[w] = CcDirtyPagesLastScan

\* worker w's scan posts the WriteBehind entry it allocated in this step
PostsEntry(w) ==
    /\ wk[w].pc = "ScanAlloc"
    /\ wk'[w].pc # "ScanAlloc" \/ sc'[w].SharedCacheMap # sc[w].SharedCacheMap
    /\ ~hist'.aborted[w]

\* C29: a WriteBehind entry dispatched by the scan is posted to the express
\* queue exactly when the stream has WAITING_FOR_TEARDOWN set at the time the
\* master lock is taken again after the allocation, and to the regular queue
\* otherwise
ExpressIffTeardownAtPost ==
    [][\A w \in Workers :
          PostsEntry(w) =>
              LET S == sc[w].SharedCacheMap
                  e == WriteBehindEntry(S)
              IN  IF scm[S].Teardown
                  THEN /\ CcExpressWorkQueue' = Append(CcExpressWorkQueue, e)
                       /\ CcRegularWorkQueue' = CcRegularWorkQueue
                  ELSE /\ CcRegularWorkQueue' = Append(CcRegularWorkQueue, e)
                       /\ CcExpressWorkQueue' = CcExpressWorkQueue]_vars

\* the scan has posted to the express queue the entry of a stream that did not
\* wait for teardown when it was dispatched
LateTeardownPostedExpress ==
    \E w \in Workers :
        /\ hist.teardown[w].late
        /\ wk[w].pc = "ScanResched"
        /\ CcExpressWorkQueue # <<>>
        /\ CcExpressWorkQueue[Len(CcExpressWorkQueue)].Function = "WriteBehind"
        /\ scm[CcExpressWorkQueue[Len(CcExpressWorkQueue)].Arg].Teardown

\* the allocation of worker w's scan fails in this step
AllocationFails(w) ==
    /\ wk[w].pc = "ScanAlloc"
    /\ hist'.aborted[w]
    /\ ~hist.aborted[w]

\* the scans that hold a map marked with one page added to its count
Pinning == {w \in Workers : wk[w].pc \in {"ScanAlloc", "ScanPosting", "ScanCourtesy"}}

\* C30: when the allocation of a WriteBehind entry fails in the scan, the
\* stream is put back (WRITE_QUEUED cleared, the page added to DirtyPages taken
\* off, so that the counts add up to CcTotalDirtyPages again), no entry is
\* posted for it, the loop inspects no further stream, and the scan returns
\* with ScanActive set and the timer armed
FailedAllocationEndsTickAndRearms ==
    [][\A w \in Workers :
          LET S == sc[w].SharedCacheMap
          IN  /\ AllocationFails(w) =>
                     /\ ~scm'[S].WriteQueued
                     /\ scm'[S].DirtyPages = scm[S].DirtyPages - 1
                     /\ \A s \in Streams \ {S} : scm'[s] = scm[s]
                     /\ SumDirty(scm', Streams) - Cardinality(Pinning')
                            = CcTotalDirtyPages'
                     /\ wk'[w].pc \in {"ScanEnd", "ScanResched"}
                     /\ sc'[w] = sc[w] /\ links' = links
                     /\ UNCHANGED <<CcExpressWorkQueue, CcRegularWorkQueue,
                                    CcPostTickWorkQueue>>
              /\ hist.aborted[w] =>
                     /\ wk[w].pc \in {"ScanEnd", "ScanResched"}
                     /\ wk'[w].pc \in {"ScanEnd", "ScanResched"} =>
                            sc'[w].SharedCacheMap = S
                     /\ wk'[w].pc \notin {"ScanEnd", "ScanResched"} =>
                            /\ wk[w].pc = "ScanResched"
                            /\ ScanActive'
                            /\ ScanTimer' \in {"CcIdleDelay", "CcFirstDelay"}
                     /\ wk'[w] # wk[w] =>
                            /\ \A i \in 1..Len(CcRegularWorkQueue') :
                                   CcRegularWorkQueue'[i].Function = "WriteBehind" =>
                                       \E j \in 1..Len(CcRegularWorkQueue) :
                                           CcRegularWorkQueue[j] = CcRegularWorkQueue'[i]
                            /\ CcExpressWorkQueue' = CcExpressWorkQueue]_vars

\* a tick was cut short by a failed allocation: the stream is back in the dirty
\* list with its dirty pages, unmarked, no entry for it in a queue, and the
\* scan is about to schedule the next tick
AllocationFailedStreamPutBack ==
    \E w \in Workers :
        LET S == sc[w].SharedCacheMap
        IN  /\ hist.aborted[w]
            /\ wk[w].pc = "ScanResched"
            /\ S \in Streams
            /\ InList(links, S)
            /\ scm[S].DirtyPages = DirtyQuantum
            /\ ~scm[S].WriteQueued
            /\ S \notin QueuedWriteBehinds

\* C21 as stated: during a scan the master lock is never held across the
\* inspection of more than 20 consecutive list entries, whatever their flags
LockHeldAcrossAtMostTwentyEntries ==
    \A w \in Workers :
        MasterLock = w => sc[w].LoopsWithLockHeld <= LockCourtesyLoops

\* worker w's scan, holding the master lock since 19 inspections or more,
\* inspects one more entry in this step
InspectsTwentiethOrLater(w) ==
    /\ wk[w].pc = "ScanLoop"
    /\ sc[w].LoopsWithLockHeld + 1 >= LockCourtesyLoops
    /\ sc[w].SharedCacheMap \notin {sc[w].FirstVisited, CcLazyWriterCursor}
    /\ wk'[w].pc # wk[w].pc \/ sc'[w] # sc[w]

\* C21 amended: from the 20th consecutive inspection without a dispatch on, the
\* scan releases the master lock at the first entry that is neither
\* WRITE_QUEUED nor a cursor (pinning it, or dispatching it), and keeps the lock
\* across every entry that is WRITE_QUEUED or a cursor, however many they are
LockKeptOnlyAcrossQueuedOrCursor ==
    [][\A w \in Workers :
          InspectsTwentiethOrLater(w) =>
              LET cur == sc[w].SharedCacheMap
                  kept == IsCursorNode(cur) \/ scm[cur].WriteQueued
              IN  /\ MasterLock' = w <=> kept
                  /\ kept => /\ wk'[w].pc = "ScanLoop"
                             /\ sc'[w].LoopsWithLockHeld = sc[w].LoopsWithLockHeld + 1
                  /\ ~kept => /\ wk'[w].pc \in {"ScanCourtesy", "ScanAlloc"}
                              /\ scm'[cur].WriteQueued
                              /\ scm'[cur].DirtyPages = scm[cur].DirtyPages + 1]_vars

\* the scan has released the master lock out of courtesy at its 20th
\* inspection, the entry pinned
CourtesyTaken ==
    \E w \in Workers :
        /\ wk[w].pc = "ScanCourtesy"
        /\ MasterLock = 0
        /\ sc[w].LoopsWithLockHeld = 0
        /\ scm[sc[w].SharedCacheMap].WriteQueued
        /\ sc[w].SharedCacheMap = LongListStreams

\* worker w, having left its loop, makes the test of line 556 in this step
LeavesWorkerThread(w) == wk[w].pc = "exit" /\ wk'[w].pc # "exit"

\* C20 as stated: on leaving its loop a worker calls the scan if and only if
\* the deferred-write list is not empty, CcTotalDirtyPages >= 20 and the worker
\* completed at least one successful WriteBehind during this activation (one
\* that wrote, or the latest one when it returned a success status)
RescanIffSomeSuccess ==
    [][\A w \in Workers :
          LeavesWorkerThread(w) =>
              (wk'[w].pc = "ScanTop" <=>
                  /\ CcDeferredWrites
                  /\ CcTotalDirtyPages >= 20
                  /\ hist.wrote[w].some \/ hist.wrote[w].last)]_vars

\* C20 amended: on leaving its loop a worker calls the scan if and only if the
\* deferred-write list is not empty, CcTotalDirtyPages >= 20 and the latest
\* WriteBehind of the activation returned a success status (RescanOk is
\* assigned by every WriteBehind that returns)
RescanIffLastSuccess ==
    [][\A w \in Workers :
          LeavesWorkerThread(w) =>
              (wk'[w].pc = "ScanTop" <=>
                  /\ CcDeferredWrites
                  /\ CcTotalDirtyPages >= 20
                  /\ hist.wrote[w].last)]_vars

\* a worker that has just gone idle with exactly 20 pages dirty, deferred
\* writes pending and a successful WriteBehind behind it is in the scan it
\* called
WorkerCalledScan ==
    \E w \in Workers :
        /\ wk[w].pc = "ScanTop"
        /\ wk[w].Entry = NoEntry
        /\ wk[w].RescanOk
        /\ CcDeferredWrites
        /\ CcTotalDirtyPages = RescanThreshold


----------------------------------------------------------------------------
(* The extra dirty page of a marked map (lines 301-302, 314-316, 325, 339-345) *)

\* the scans that have added one to the DirtyPages of s and not yet taken it off
Biasing(s) == {w \in Pinning : sc[w].SharedCacheMap = s}

\* C31: whenever the master lock is free, the DirtyPages of every stream is the
\* number of its pages counted in CcTotalDirtyPages or one more; it is one more
\* only while WRITE_QUEUED is set on the stream, and exactly while one scan is
\* between adding the one (lines 302, 340) and taking it off (lines 316, 325,
\* 345), so that every one added is taken off once.
BiasAtMostOneWhileQueued ==
    MasterLock = 0 =>
        \A s \in DOMAIN scm :
            /\ scm[s].DirtyPages - hist.dirty[s] \in {0, 1}
            /\ scm[s].DirtyPages > hist.dirty[s] => scm[s].WriteQueued
            /\ scm[s].DirtyPages - hist.dirty[s] = Cardinality(Biasing(s))

\* a scan has dropped the master lock out of courtesy on a stream it holds by
\* WRITE_QUEUED and the extra page, while another stream, whose extra page was
\* taken off when its entry was posted, is still being written
CourtesyBiasOutstanding ==
    \E w \in Workers, s \in DOMAIN scm :
        /\ wk[w].pc = "ScanCourtesy"
        /\ sc[w].SharedCacheMap = s
        /\ MasterLock = 0
        /\ scm[s].DirtyPages = hist.dirty[s] + 1
        /\ \E t \in DOMAIN scm \ {s} :
               /\ t \in QueuedWriteBehinds
               /\ scm[t].WriteQueued
               /\ scm[t].DirtyPages = hist.dirty[t]


----------------------------------------------------------------------------
(* The throttle of the worker pool (lines 495-506, 551-554) *)

\* worker w goes through the critical section at the top of its loop
EntersLoop(w) == wk[w].pc = "top" /\ wk'[w] # wk[w]

\* the queues as worker w sees them once it has put back the entry it was
\* asked to requeue (lines 481-484), and the one it chooses
ExpressSeenBy(w) == Requeued(CcExpressWorkQueue, "express", wk[w])
RegularSeenBy(w) == Requeued(CcRegularWorkQueue, "regular", wk[w])
ChosenBy(w) ==
    IF SelectQueue(ExpressSeenBy(w), RegularSeenBy(w)) = "express"
    THEN ExpressSeenBy(w) ELSE RegularSeenBy(w)

\* C32: a worker takes an EventSet entry off a queue only in a critical
\* section in which CcNumberActiveWorkerThreads is at most 1; when it finds an
\* EventSet entry at the head of the queue it chose while the number is above
\* 1, it leaves both queues as they are, sets CcQueueThrottle and goes idle
\* (back on the idle list, one active worker fewer).
EventSetTakenAlone ==
    [][\A w \in Workers :
          /\ EntersLoop(w) /\ wk'[w].pc = "EventSet" =>
                /\ CcNumberActiveWorkerThreads <= 1
                /\ CcNumberActiveWorkerThreads' = CcNumberActiveWorkerThreads
                /\ wk'[w].Entry = Head(ChosenBy(w))
          /\ ( /\ EntersLoop(w)
               /\ ChosenBy(w) # <<>>
               /\ Head(ChosenBy(w)).Function = "EventSet"
               /\ CcNumberActiveWorkerThreads > 1 ) =>
                /\ CcExpressWorkQueue' = ExpressSeenBy(w)
                /\ CcRegularWorkQueue' = RegularSeenBy(w)
                /\ CcQueueThrottle'
                /\ wk'[w].pc = "exit"
                /\ wk'[w].Entry = NoEntry
                /\ CcIdleWorkerThreadList' = Append(CcIdleWorkerThreadList, w)
                /\ CcNumberActiveWorkerThreads' = CcNumberActiveWorkerThreads - 1
    ]_vars

\* a worker has gone idle in front of an EventSet entry, leaving it at the
\* head of the regular queue with the throttle set, while another worker is
\* still writing
WorkerThrottledAtEvent ==
    /\ CcQueueThrottle
    /\ CcRegularWorkQueue # <<>>
    /\ Head(CcRegularWorkQueue).Function = "EventSet"
    /\ \E w, v \in Workers :
           /\ wk[w].pc = "exit"
           /\ wk[v].pc = "WriteBehind"
    /\ CcNumberActiveWorkerThreads = 1


----------------------------------------------------------------------------
(* Entries queued behind the drain of CcPostTickWorkQueue (lines 183-190, 364-368) *)

Entries(q) == {q[i] : i \in 1..Len(q)}

\* the scan of worker w is past the top of CcLazyWriteScan
PastDrain(w) ==
    wk[w].pc \in {"ScanLoop", "ScanAlloc", "ScanPosting", "ScanCourtesy", "ScanEnd",
                  "ScanResched", "ScanSchedule"}

ScanSteps(w) == wk'[w] # wk[w] \/ sc'[w] # sc[w]

\* C33: a scan that is past its drain of CcPostTickWorkQueue leaves that queue
\* as it is, and the EventSet entries it posts to the regular queue are entries
\* it pulled at its drain, none that is in CcPostTickWorkQueue; an entry leaves
\* CcPostTickWorkQueue only at the top of a scan, into that scan's local list.
LateBarrierEntryStays ==
    [][/\ \A w \in Workers :
             PastDrain(w) /\ ScanSteps(w) =>
                /\ CcPostTickWorkQueue' = CcPostTickWorkQueue
                /\ \A e \in Entries(CcRegularWorkQueue') \ Entries(CcRegularWorkQueue) :
                       e.Function = "EventSet" =>
                          /\ e \in Entries(hist.tickStart[w])
                          /\ e \notin Entries(CcPostTickWorkQueue)
       /\ \A e \in Entries(CcPostTickWorkQueue) \ Entries(CcPostTickWorkQueue') :
             \E w \in Workers :
                /\ wk[w].pc = "ScanTop"
                /\ ScanSteps(w)
                /\ e \in Entries(sc'[w].PostTickWorkQueue)
    ]_vars

\* a full tick that pulled no entry at its top is about to return, after its
\* loop and its post-tick posts, while an entry queued during the tick waits
\* in CcPostTickWorkQueue and in no work queue
LateEntryLeftForNextScan ==
    \E w \in Workers :
        /\ wk[w].pc = "ScanResched"
        /\ hist.tick[w] = "full"
        /\ hist.tickStart[w] = <<>>
        /\ CcPostTickWorkQueue # <<>>
        /\ \A e \in Entries(CcPostTickWorkQueue) :
               e \notin Entries(CcRegularWorkQueue) \cup Entries(CcExpressWorkQueue)


----------------------------------------------------------------------------
(* How often a tick inspects a stream (lines 225-231, 283-292, 350-360) *)

\* the loop of worker w's scan has ended, without a failed allocation
LoopDone(w) ==
    /\ wk[w].pc \in {"ScanEnd", "ScanResched"}
    /\ hist.tick[w] = "full"
    /\ ~hist.aborted[w]

\* C34: when the loop of a scan has ended without a failed
\* allocation, the scan has inspected every stream still in the dirty list
\* exactly once.
EveryStreamInspectedOnce ==
    \A w \in Workers :
        LoopDone(w) =>
            \A s \in DOMAIN scm : InList(links, s) => hist.visits[w][s] = 1

\* what the loop does achieve while no other scan runs: it never inspects a
\* stream more than twice in a tick, and when it has ended without a failed
\* allocation it has inspected every stream still in the dirty list at least
\* once, and twice only when the tick moved the cursor and the stream it
\* visited first has left the list
EveryStreamInspectedOnceOrTwice ==
    \A w \in Workers :
        /\ \A s \in DOMAIN hist.visits[w] : hist.visits[w][s] <= 2
        /\ LoopDone(w) =>
              \A s \in DOMAIN scm :
                  InList(links, s) =>
                      /\ hist.visits[w][s] >= 1
                      /\ hist.visits[w][s] = 2 =>
                            /\ hist.cursorMove[w].how # "none"
                            /\ ~InList(links, sc[w].FirstVisited)

\* a loop has ended at the cursor it moved, the stream it visited first having
\* left the list: one stream was inspected twice and another once
StreamInspectedAgainBehindMovedCursor ==
    \E w \in Workers, s, t \in DOMAIN scm :
        /\ LoopDone(w)
        /\ ~InList(links, sc[w].FirstVisited)
        /\ hist.cursorMove[w].how # "none"
        /\ InList(links, s) /\ hist.visits[w][s] = 2
        /\ InList(links, t) /\ hist.visits[w][t] = 1


----------------------------------------------------------------------------
(* OtherWork and the entries waiting in CcPostTickWorkQueue (lines 107-115, 140-193) *)

\* C35: every step leaves OtherWork set if it leaves the master lock free and
\* CcPostTickWorkQueue not empty (the queue is empty at the start); and a scan
\* that starts while an entry waits there does not take the early return of
\* lines 141-181: it runs a full tick.
OtherWorkCoversPostTick ==
    [][/\ MasterLock' = 0 /\ CcPostTickWorkQueue' # <<>> => OtherWork'
       /\ \A w \in Workers :
             ScanStarts(w) /\ CcPostTickWorkQueue # <<>> => hist'.tick[w] = "full"]_vars

\* a scan is about to make its quiescence test with nothing dirty, while an
\* entry waits in CcPostTickWorkQueue
QuiescenceTestedWithEntryWaiting ==
    \E w \in Workers :
        /\ wk[w].pc = "ScanTop"
        /\ MasterLock = 0
        /\ CcTotalDirtyPages = 0
        /\ CcPostTickWorkQueue # <<>>
        /\ OtherWork


----------------------------------------------------------------------------
(* ScanActive and the entries waiting in CcPostTickWorkQueue (lines 70-79, 109-115, 169-171) *)

\* C36: whenever the master lock is free, ScanActive is set if
\* CcPostTickWorkQueue is not empty.
PostTickImpliesScanActive ==
    MasterLock = 0 /\ CcPostTickWorkQueue # <<>> => ScanActive


----------------------------------------------------------------------------
(* The barrier under fair scheduling (lines 54-80, 103-117, 472-506, 526-530) *)

\* C37: a caller of CcWaitForCurrentLazyWriterActivity that has queued its
\* entry and waits eventually returns, unless the run reaches the number of
\* scans the model follows.
WaitEventuallyReturns ==
    \A u \in Waiters :
        wt[u].pc = "waiting" ~> (wt[u].pc = "returned" \/ hist.scans >= MaxScans)


----------------------------------------------------------------------------
(* Wake-ups of the worker pool (lines 430-445, 486-501, 551-554) *)

\* C38: whenever the work-queue lock is free and a work queue is not empty, at
\* least one worker is active.
QueuedWorkHasActiveWorker ==
    WorkQueueLock = 0 /\ (CcExpressWorkQueue # <<>> \/ CcRegularWorkQueue # <<>>)
        => CcNumberActiveWorkerThreads >= 1


\* an entry was posted behind an EventSet entry while the throttle was set: an
\* idle worker was at hand and was not activated, one worker is active
PostedWhileThrottled ==
    /\ CcQueueThrottle
    /\ Len(CcRegularWorkQueue) >= 2
    /\ Head(CcRegularWorkQueue).Function = "EventSet"
    /\ CcIdleWorkerThreadList # <<>>
    /\ CcNumberActiveWorkerThreads = 1


----------------------------------------------------------------------------
(* Conservation of the work-queue entries (lines 186-190, 364-368, 480-506, 545-548) *)

RECURSIVE PulledOccurrences(_, _)
PulledOccurrences(W, e) ==
    IF W = {} THEN 0
    ELSE LET w == CHOOSE x \in W : TRUE
         IN  OccurrencesIn(sc[w].PostTickWorkQueue, e) + PulledOccurrences(W \ {w}, e)

\* the places entry e is in: the queues, the local lists of the scans and the
\* workers that hold it
Places(e) ==
    OccurrencesIn(CcPostTickWorkQueue, e) + PulledOccurrences(Workers, e)
    + OccurrencesIn(CcExpressWorkQueue, e) + OccurrencesIn(CcRegularWorkQueue, e)
    + Cardinality({w \in Workers : wk[w].Entry = e})

\* the EventSet entry of a caller is in one place from the call until a worker
\* has run it, and in none before and after; the WriteBehind entry of a
\* stream is in at most one place, and only while the stream is WRITE_QUEUED
EachEntryInOnePlace ==
    /\ \A u \in Waiters :
          Places(EventSetEntry(u)) =
              IF wt[u].pc \in {"scheduling", "waiting"} /\ ~wt[u].Event THEN 1 ELSE 0
    /\ \A s \in DOMAIN scm :
          /\ Places(WriteBehindEntry(s)) <= 1
          /\ Places(WriteBehindEntry(s)) = 1 => scm[s].WriteQueued

\* worker w frees the entry it holds in this step
Frees(w) ==
    /\ wk[w].Entry # NoEntry
    /\ wk'[w].Entry = NoEntry
    /\ ~(wk[w].pc = "top" /\ wk[w].Information = CC_REQUEUE)

\* an entry is allocated and queued in this step: by a caller of
\* CcWaitForCurrentLazyWriterActivity, by the timer's DPC or by a scan
Allocates ==
    \/ \E u \in Waiters : wt[u].pc = "idle" /\ wt'[u].pc \in {"scheduling", "waiting"}
    \/ ScanTimer # "off" /\ ScanTimer' = "off"
    \/ \E w \in Workers : wk[w].pc \in {"ScanAlloc", "ScanPosting"} /\ ScanSteps(w)

\* C39: after every step each entry is in exactly one place (a queue, a
\* scan's local list or one worker's hands); the number of entries changes
\* only by one more when an entry is allocated and queued and by one less when
\* a worker frees the entry it holds, and the entry freed is then in no queue
\* and in no other worker's hands.
EntriesConserved ==
    [][/\ EachEntryInOnePlace'
       /\ \A w \in Workers :
             Frees(w) =>
                /\ EntriesInExistence' = EntriesInExistence - 1
                /\ \A e \in {wk[w].Entry} :
                       e.Function \in {"WriteBehind", "EventSet"} => Places(e)' = 0
       /\ (\A w \in Workers : ~Frees(w)) =>
             /\ EntriesInExistence' \in {EntriesInExistence, EntriesInExistence + 1}
             /\ EntriesInExistence' = EntriesInExistence + 1 => Allocates
    ]_vars

\* entries in three places at once: an EventSet entry in the regular queue, a
\* WriteBehind entry in the express queue and another in the hands of a worker
\* that is to put it back
EntriesInThreePlaces ==
    \E u \in Waiters, s, t \in DOMAIN scm, w \in Workers :
        /\ OccurrencesIn(CcRegularWorkQueue, EventSetEntry(u)) = 1
        /\ OccurrencesIn(CcExpressWorkQueue, WriteBehindEntry(s)) = 1
        /\ wk[w].Entry = WriteBehindEntry(t)
        /\ wk[w].Information = CC_REQUEUE
        /\ s # t


----------------------------------------------------------------------------
(* The order of the two locks (lines 430-439, 472-506, 551-558) *)

\* worker w is about to acquire the master lock: at the entry of
\* CcLazyWriteScan (line 140) or after the allocation of a WriteBehind entry
\* (line 324)
AwaitsMasterLock(w) == wk[w].pc \in {"ScanTop", "ScanAlloc"}

\* worker w acquires the master lock in this step (a step that runs to the
\* next release may have released it again)
AcquiresMasterLock(w) ==
    \/ MasterLock # w /\ MasterLock' = w
    \/ AwaitsMasterLock(w) /\ wk'[w] # wk[w]

\* worker w is about to acquire the work-queue lock: at the top of the
\* worker's loop (line 473) or in CcPostWorkQueue (line 431)
AwaitsWorkQueueLock(w) == wk[w].pc \in {"top", "ScanLocked"}

\* two threads wait for each other's lock
CyclicWait ==
    \E a, b \in Workers :
        /\ a # b
        /\ MasterLock = a /\ AwaitsWorkQueueLock(a)
        /\ WorkQueueLock = b /\ AwaitsMasterLock(b)

\* C40: no thread acquires the master lock while it holds the work-queue
\* lock (the work-queue lock is taken alone or inside the master lock), and
\* no step leads to a state in which one thread holds the master lock and
\* waits for the work-queue lock while another holds the work-queue lock and
\* waits for the master lock.
MasterLockNeverInsideWorkQueueLock ==
    [][/\ \A w \in Workers :
             AcquiresMasterLock(w) => WorkQueueLock # w
       /\ ~CyclicWait']_vars

\* a scan holds the master lock and waits in CcPostWorkQueue for the
\* work-queue lock, which a worker holds in its loop
ScanWaitsForWorkerInsideMasterLock ==
    \E a, b \in Workers :
        /\ a # b
        /\ MasterLock = a /\ wk[a].pc = "ScanLocked"
        /\ WorkQueueLock = b /\ wk[b].pc = "QueueLocked"

TypeOK ==
    /\ ScanActive \in BOOLEAN
    /\ MasterLock \in Workers \cup {0} \cup {-u : u \in Waiters}
    /\ CcNumberActiveWorkerThreads \in 0..NumWorkers
    /\ \A s \in Streams : scm[s].DirtyPages >= 0

====
